---- MODULE Spec2Model ----
(***************************************************************************)
(* Model of the WebSocket client of src/unnamed/part_001                   *)
(* (websocket_client.hpp, the variant with connect/disconnect/runLoop).    *)
(*                                                                         *)
(* Threads: the user threads u1 and u2, the connection's worker thread w,  *)
(* and the peer (the server and the network) as the environment.  Every    *)
(* method is cut into steps at its accesses to shared state (the atomic    *)
(* state_ and stop_, the socket, the send mutex, the worker handle), so    *)
(* that the interleavings of the threads are those of the program.         *)
(***************************************************************************)
EXTENDS Integers, Sequences, FiniteSets, TLC

\* ------------------------------------------------------------------ bounds
MaxCalls == 3        \* API calls of the thread that owns the connection
MaxSends == 1        \* API calls of the second thread next to an owner thread
MaxRaceCalls == 2    \* API calls of each of two threads that both disconnect
MaxPeerFrames == 1   \* frames the peer sends in one run
MaxBeats == 1        \* heartbeat intervals that elapse in one run
MaxFrames == 2       \* frames each of two sending threads sends
MaxPayload == 65536  \* the longest payload that is encoded (the first with a 64-bit length)
MaxAllSplits == 200  \* the longest encoded frame that is split at every byte
MaxPort == 65535     \* the highest port of a parsed URL
MaxDispatch == 3     \* frames the parse loop dispatches from one buffer
MaxBurst == 2        \* frames the peer sends in a run of one connection
MaxTime == 1200      \* how long the worker's loop is followed, in ms

\* ------------------------------------------------------------------ threads
Users == {"u1", "u2"}
Worker == "w"
Threads == Users \cup {Worker}

\* ResultCode (part_001:51-62)
ResultCodes ==
    {"SUCCESS", "URL_ERROR", "CONNECTION_ERROR", "HANDSHAKE_ERROR", "FRAME_ERROR",
     "SSL_ERROR", "TIMEOUT", "CLOSED", "INVALID_STATE", "INVALID_PARAMETER"}

\* WebSocketState (part_001:80)
WebSocketState == {"CONNECTING", "OPEN", "CLOSING", "CLOSED"}

\* FrameType (part_001:413); "OP3" stands for an opcode outside the enum
FrameType == {"CONTINUATION", "TEXT", "BINARY", "CLOSE", "PING", "PONG"}

\* ------------------------------------------------------------------ strings

\* A std::string is a sequence of characters; positions count from 0 as in C++
npos == 0 - 1

\* s.find(pat): the first position at which pat occurs in s, or npos
Find(s, pat) ==
    LET hits == {i \in 0..(Len(s) - Len(pat)) : SubSeq(s, i + 1, i + Len(pat)) = pat}
    IN  IF hits = {} THEN npos ELSE CHOOSE i \in hits : \A j \in hits : i <= j

\* s.substr(pos) and s.substr(pos, n)
SubstrFrom(s, pos) == SubSeq(s, pos + 1, Len(s))
Substr(s, pos, n) == SubSeq(s, pos + 1, IF pos + n < Len(s) THEN pos + n ELSE Len(s))

Digits == <<"0", "1", "2", "3", "4", "5", "6", "7", "8", "9">>
IsDigit(c) == \E d \in DOMAIN Digits : Digits[d] = c
DigitValue(c) == (CHOOSE d \in DOMAIN Digits : Digits[d] = c) - 1

\* The widths of long that the builds have: 64 bits (Linux, macOS), 32 bits (Windows)
LongBits == {32, 64}

\* strtol on a string of digits, in three parts of 16, 24 and 24 bits: the value,
\* or over = TRUE once it has passed LONG_MAX of a 64-bit long
RECURSIVE strtol(_)
strtol(p) ==
    IF p = <<>> THEN [top |-> 0, mid |-> 0, low |-> 0, over |-> FALSE]
    ELSE LET acc == strtol(SubSeq(p, 1, Len(p) - 1))
             low == 10 * acc.low + DigitValue(p[Len(p)])
             mid == 10 * acc.mid + (low \div 16777216)
             top == 10 * acc.top + (mid \div 16777216)
         IN  IF acc.over \/ top >= 32768 THEN [acc EXCEPT !.over = TRUE]
             ELSE [top |-> top, mid |-> mid % 16777216, low |-> low % 16777216, over |-> FALSE]

\* std::atoi on a string of digits: (int) strtol(p, NULL, 10).  A value that fits
\* an int is returned; for a larger one the standard leaves the result open, and
\* the builds give INT_MAX where long has 32 bits and, where it has 64, the low 32
\* bits of the value or of LONG_MAX.
atoi(p, long_bits) ==
    LET v == strtol(p)
        fits == ~v.over /\ v.top = 0 /\ v.mid < 128
        high == v.mid % 256
    IN  IF fits THEN v.mid * 16777216 + v.low
        ELSE IF long_bits = 32 THEN 2147483647
        ELSE IF v.over THEN -1
        ELSE IF high < 128 THEN high * 16777216 + v.low
        ELSE (high - 256) * 16777216 + v.low

\* the decimal digits of a positive number, as std::to_string writes them
RECURSIVE Decimal(_)
Decimal(n) == IF n < 10 THEN <<Digits[n + 1]>> ELSE Decimal(n \div 10) \o <<Digits[(n % 10) + 1]>>

\* ------------------------------------------------------------------ URL parser

\* the port of a URL without one (part_001:202)
DefaultPortPlain(scheme) == 80
DefaultPort(scheme) == IF scheme = <<"w", "s", "s">> THEN 443 ELSE 80

\* URL as default-constructed (part_001:217-222), with the result code of parse
NoURL ==
    [code |-> "SUCCESS", scheme |-> <<>>, host |-> <<>>, port |-> 0, path |-> <<"/">>,
     query |-> <<>>]

\* URL::parse (part_001:185-215): the result code and the fields as they are
\* when parse returns
URL_parseOn(text, long_bits) ==
    LET pos == Find(text, <<":", "/", "/">>)
    IN  IF pos = npos THEN [NoURL EXCEPT !.code = "URL_ERROR"]
        ELSE
        LET scheme == Substr(text, 0, pos)
            rest == SubstrFrom(text, pos + 3)
            slash == Find(rest, <<"/">>)
            hostport == IF slash = npos THEN rest ELSE Substr(rest, 0, slash)
            path == IF slash = npos THEN <<"/">> ELSE SubstrFrom(rest, slash)
            colon == Find(hostport, <<":">>)
            u0 == [NoURL EXCEPT !.scheme = scheme, !.path = path]
        IN  IF colon = npos
            THEN LET u1 == [u0 EXCEPT !.host = hostport, !.port = DefaultPort(scheme)]
                 IN  IF u1.host = <<>> THEN [u1 EXCEPT !.code = "URL_ERROR"]
                     ELSE IF scheme # <<"w", "s">> /\ scheme # <<"w", "s", "s">>
                          THEN [u1 EXCEPT !.code = "URL_ERROR"]
                          ELSE u1
            ELSE LET p == SubstrFrom(hostport, colon + 1)
                     u1 == [u0 EXCEPT !.host = Substr(hostport, 0, colon)]
                 IN  IF p = <<>> \/ \E i \in DOMAIN p : ~IsDigit(p[i])
                     THEN [u1 EXCEPT !.code = "URL_ERROR"]
                     ELSE LET u2 == [u1 EXCEPT !.port = atoi(p, long_bits)]
                          IN  IF u2.port <= 0 \/ u2.port > 65535
                              THEN [u2 EXCEPT !.code = "URL_ERROR"]
                              ELSE IF u2.host = <<>> THEN [u2 EXCEPT !.code = "URL_ERROR"]
                              ELSE IF scheme # <<"w", "s">> /\ scheme # <<"w", "s", "s">>
                                   THEN [u2 EXCEPT !.code = "URL_ERROR"]
                                   ELSE u2

\* URL::parse of a URL whose port, if it has one, fits an int: every build gives
\* the same result
URL_parse(text) == URL_parseOn(text, 64)

\* port 0: the URL has no port; path <<>>: the URL has no path
URLText(scheme, host, port, path) ==
    scheme \o <<":", "/", "/">> \o host \o (IF port = 0 THEN <<>> ELSE <<":">> \o Decimal(port)) \o path

\* ------------------------------------------------------------------ frame codec

\* a ^ b on bytes: bit by bit, as a table for half bytes, and on bytes
RECURSIVE XorBits(_, _)
XorBits(a, b) ==
    IF a = 0 THEN b
    ELSE IF b = 0 THEN a
    ELSE 2 * XorBits(a \div 2, b \div 2) + ((a + b) % 2)
XorTable == [a \in 0..15 |-> [b \in 0..15 |-> XorBits(a, b)]]
Xor(a, b) == 16 * XorTable[a \div 16][b \div 16] + XorTable[a % 16][b % 16]

\* n >> (8 * k)
RECURSIVE Shr8(_, _)
Shr8(n, k) == IF k = 0 THEN n ELSE Shr8(n \div 256, k - 1)

\* WebSocketFrame as default-constructed (part_001:417-421)
NoFrame == [fin |-> TRUE, opcode |-> 0, masked |-> FALSE, mask_key |-> <<>>, payload |-> <<>>]

\* serialize: the payload length goes into the second byte (part_001:429)
FitsIn7BitsOffByOne(len) == len <= 126
FitsIn7Bits(len) == len < 126

\* WebSocketFrame::serialize (part_001:423-448), in bytes
serialize(f) ==
    LET b0 == (IF f.fin THEN 128 ELSE 0) + (f.opcode % 16)
        len == Len(f.payload)
        b1 == IF f.masked THEN 128 ELSE 0
        head == IF FitsIn7Bits(len) THEN <<b0, b1 + len>>
                ELSE IF len <= 65535
                     THEN <<b0, b1 + 126, Shr8(len, 1) % 256, len % 256>>
                     ELSE <<b0, b1 + 127>> \o [i \in 1..8 |-> Shr8(len, 8 - i) % 256]
    IN  IF f.masked
        THEN head \o f.mask_key
                  \o [i \in 1..len |-> Xor(f.payload[i], f.mask_key[((i - 1) % 4) + 1])]
        ELSE head \o f.payload

\* parse's failure returns: FRAME_ERROR "incomplete ...", consumed = 0
Incomplete(f) == [code |-> "FRAME_ERROR", consumed |-> 0, frame |-> f]

\* the big-endian number in the k bytes of in behind position i (part_001:462, 466)
RECURSIVE BigEndian(_, _, _, _)
BigEndian(in, i, k, acc) ==
    IF k = 0 THEN acc ELSE BigEndian(in, i + 1, k - 1, acc * 256 + in[i + 1])

\* A uint64_t, in three parts: the 16 bits on top, the 24 bits below them and the
\* lowest 24 bits.  Every buffer is shorter than 2^24 bytes.
Limb == 16777216
TopLimb == 65536
U64(n) == [top |-> 0, mid |-> 0, low |-> n]
\* the 64-bit length in the 8 bytes of in behind position i (part_001:466)
BigEndian64(in, i) ==
    [top |-> BigEndian(in, i, 2, 0), mid |-> BigEndian(in, i + 2, 3, 0),
     low |-> BigEndian(in, i + 5, 3, 0)]
\* i + len in uint64_t, for a position i
Add64(i, len) ==
    LET low == len.low + i
        mid == len.mid + (low \div Limb)
        top == len.top + (mid \div Limb)
    IN  [top |-> top % TopLimb, mid |-> mid % Limb, low |-> low % Limb]
\* n < x for a buffer size n and a uint64_t x
Less64(n, x) == x.top > 0 \/ x.mid > 0 \/ n < x.low
\* in.substr(i, len).size(): the bytes of in behind position i, at most len
SubstrSize(in, i, len) ==
    IF Less64(Len(in) - i, len) THEN Len(in) - i ELSE len.low

\* parse: consumed = i, the header and the payload of the one frame (part_001:478-479)
ConsumedWholeBuffer(in, end) == Len(in)
Consumed(in, end) == end

\* WebSocketFrame::parse (part_001:450-481), on a buffer of bytes: the result
\* code, consumed, and the frame as far as it was filled in.  size_t and
\* uint64_t are both 64 bits wide: i + len is a sum modulo 2^64.
parse(in) ==
    IF Len(in) < 2 THEN Incomplete(NoFrame)
    ELSE
    LET b0 == in[1]
        b1 == in[2]
        f0 == [NoFrame EXCEPT !.fin = ((b0 \div 128) % 2 = 1), !.opcode = b0 % 16,
                              !.masked = ((b1 \div 128) % 2 = 1)]
        len7 == b1 % 128
        i1 == IF len7 = 126 THEN 4 ELSE IF len7 = 127 THEN 10 ELSE 2
    IN  IF len7 = 126 /\ Len(in) < 2 + 2 THEN Incomplete(f0)
        ELSE IF len7 = 127 /\ Len(in) < 2 + 8 THEN Incomplete(f0)
        ELSE
        LET len == IF len7 = 126 THEN U64(BigEndian(in, 2, 2, 0))
                   ELSE IF len7 = 127 THEN BigEndian64(in, 2)
                   ELSE U64(len7)
        IN  IF f0.masked /\ Len(in) < i1 + 4 THEN Incomplete(f0)
            ELSE
            LET key == IF f0.masked THEN SubSeq(in, i1 + 1, i1 + 4) ELSE <<>>
                i2 == IF f0.masked THEN i1 + 4 ELSE i1
                f1 == [f0 EXCEPT !.mask_key = key]
                end == Add64(i2, len)
                n == SubstrSize(in, i2, len)
            IN  IF Less64(Len(in), end) THEN Incomplete(f1)
                ELSE [code |-> "SUCCESS",
                      consumed |-> Consumed(in, end.low),
                      frame |-> [f1 EXCEPT !.payload =
                                    IF f0.masked
                                    THEN [k \in 1..n |->
                                             Xor(in[i2 + k], key[((k - 1) % 4) + 1])]
                                    ELSE SubSeq(in, i2 + 1, i2 + n)]]

\* ------------------------------------------------------------------ the client's inputs

\* The URLs a user passes to connect
URLs == {"ws", "wss", "bad", "invalid"}

\* ws://h/chat, wss://h/chat, http://example.com/, invalid://url
TextOf(url) ==
    CASE url = "ws" -> URLText(<<"w", "s">>, <<"h">>, 0, <<"/", "c", "h", "a", "t">>)
      [] url = "wss" -> URLText(<<"w", "s", "s">>, <<"h">>, 0, <<"/", "c", "h", "a", "t">>)
      [] url = "bad" -> URLText(<<"h", "t", "t", "p">>, <<"e", "x", "a", "m", "p", "l", "e", ".", "c", "o", "m">>, 0, <<"/">>)
      [] url = "invalid" -> URLText(<<"i", "n", "v", "a", "l", "i", "d">>, <<"u", "r", "l">>, 0, <<>>)

\* what URL::parse makes of them
Parsed == [url \in URLs |-> URL_parse(TextOf(url))]

\* URL::parse in connect (part_001:572): its result code
URLparseAccept(url) == "SUCCESS"
URLparse(url) == Parsed[url].code

\* Payloads of the frames that are sent and received
Payloads == {"a"}

\* A payload of 126 bytes, one more than a control frame may carry
A25 == "aaaaaaaaaaaaaaaaaaaaaaaaa"
LongPayload == A25 \o A25 \o A25 \o A25 \o A25 \o "a"

\* What the user passes to ping (part_001:631): nothing, a byte, 126 bytes
PingPayloads == {""} \cup Payloads \cup {LongPayload}

\* A masked PONG header whose 64-bit length is 2^64 - 14, and nothing behind it:
\* 0x8A, 0xFF, the length, the mask key
WrapBytes == <<138, 255, 255, 255, 255, 255, 255, 255, 255, 242, 18, 52, 171, 255>>

\* The frames the peer sends.  stuck: parse succeeds on the frame's bytes with
\* consumed = 0, so that recv_buf.erase(0, used) removes nothing (part_001:658-662)
PeerFrameSet ==
    {[op |-> "TEXT", fin |-> TRUE, pl |-> "a", stuck |-> FALSE],
     [op |-> "BINARY", fin |-> TRUE, pl |-> "a", stuck |-> FALSE],
     [op |-> "PING", fin |-> TRUE, pl |-> "a", stuck |-> FALSE],
     [op |-> "PONG", fin |-> TRUE, pl |-> "", stuck |-> FALSE],
     [op |-> "CLOSE", fin |-> TRUE, pl |-> "", stuck |-> FALSE],
     [op |-> "OP3", fin |-> TRUE, pl |-> "", stuck |-> FALSE],
     \* a message in fragments: its first frame and its last
     [op |-> "TEXT", fin |-> FALSE, pl |-> "a", stuck |-> FALSE],
     [op |-> "CONTINUATION", fin |-> TRUE, pl |-> "a", stuck |-> FALSE],
     \* the bytes WrapBytes
     [op |-> "PONG", fin |-> TRUE, pl |-> "",
      stuck |-> (parse(WrapBytes).code = "SUCCESS" /\ parse(WrapBytes).consumed = 0)]}

\* The handshake responses the peer gives: which of the four checks of
\* validateResponse the response passes, or a header block with no terminator
\* that grows beyond 32 KiB
Responses ==
    {[status |-> TRUE, upgrade |-> TRUE, connection |-> TRUE, accept |-> TRUE, huge |-> FALSE],
     [status |-> FALSE, upgrade |-> TRUE, connection |-> TRUE, accept |-> TRUE, huge |-> FALSE],
     [status |-> TRUE, upgrade |-> FALSE, connection |-> TRUE, accept |-> TRUE, huge |-> FALSE],
     [status |-> TRUE, upgrade |-> TRUE, connection |-> FALSE, accept |-> TRUE, huge |-> FALSE],
     [status |-> TRUE, upgrade |-> TRUE, connection |-> TRUE, accept |-> FALSE, huge |-> FALSE],
     [status |-> TRUE, upgrade |-> TRUE, connection |-> TRUE, accept |-> TRUE, huge |-> TRUE]}

NoResponse == [status |-> FALSE, upgrade |-> FALSE, connection |-> FALSE, accept |-> FALSE, huge |-> FALSE]

VARIABLES
    state,      \* state_: the atomic WebSocketState
    stop,       \* stop_: the atomic stop flag
    sock,       \* conn_.isOpen(): socket_ != INVALID_SOCKET
    worker,     \* worker_: "none" (not joinable), "running", "exited" (finished, joinable)
    crashed,    \* std::terminate was called
    mtx,        \* send_mtx_: "free" or the thread that holds it
    wire,       \* what the client has written to the current socket, in chunks
    inflight,   \* frames the peer has sent that the client has not read yet
    netDown,    \* the peer has closed or reset the connection
    peerResp,   \* the handshake response the peer has sent (NoResponse: none yet)
    responded,  \* the peer has answered the handshake request
    recv_buf,   \* runLoop's recv_buf, in frames
    pc,         \* each thread's position
    sf,         \* each thread's sendFrame call: frame type, payload, return position
    rc,         \* the last WebSocketResult each user thread got
    url,        \* connect's local URL u (its scheme), per user thread
    opened,     \* the user's current or last connect call has invoked on_open_
    dst,        \* disconnect's local st, per user thread
    cb,         \* the callbacks invoked since the last state_.store(CONNECTING): event, thread
    left,       \* what is left of the run: API calls per user, peer frames, heartbeats
    mayConnect, \* the threads that call connect in this run
    mayDisconnect, \* the threads that call disconnect in this run
    maySend,    \* the threads that call send, sendBinary and ping in this run
    calc        \* a call of a static function (the frame codec, the handshake
                \* validator, the URL parser): its input, its stage, its result

\* the socket and what travels over it
connVars == <<sock, wire, inflight, netDown, peerResp, responded>>
\* the locals of the user threads' calls
userVars == <<url, opened, dst>>
\* the roles and the static function call: no step of the client changes them
roleVars == <<mayConnect, mayDisconnect, maySend, calc>>
runVars == <<left, roleVars>>

vars ==
    <<state, stop, worker, crashed, mtx, recv_buf, pc, sf, rc, cb, connVars, userVars, runVars>>

\* the variables of the client and its peer
clientVars ==
    <<state, stop, worker, crashed, mtx, recv_buf, pc, sf, rc, cb, connVars, userVars, left,
      mayConnect, mayDisconnect, maySend>>

NoSend == [op |-> "TEXT", pl |-> "", ret |-> "idle", fid |-> 0]

\* no static function is being called
NoCalc == [fn |-> "none"]

\* WebSocketClient() (part_001:555): state_ CLOSED, stop_ false, no socket, no worker
InitClient ==
    /\ state = "CLOSED"
    /\ stop = FALSE
    /\ sock = FALSE
    /\ worker = "none"
    /\ crashed = FALSE
    /\ mtx = "free"
    /\ wire = <<>>
    /\ inflight = <<>>
    /\ netDown = FALSE
    /\ peerResp = NoResponse
    /\ responded = FALSE
    /\ recv_buf = <<>>
    /\ pc = [t \in Threads |-> IF t = Worker THEN "off" ELSE "idle"]
    /\ sf = [t \in Threads |-> NoSend]
    /\ rc = [t \in Users |-> "SUCCESS"]
    /\ url = [t \in Users |-> "none"]
    /\ opened = [t \in Users |-> FALSE]
    /\ dst = [t \in Users |-> "CLOSED"]
    /\ cb = <<>>

\* One thread owns the connection (connect, disconnect, send); the other sends
Init ==
    /\ InitClient
    /\ mayConnect = {"u1"}
    /\ mayDisconnect = {"u1"}
    /\ maySend = Users
    /\ left = [u1 |-> MaxCalls, u2 |-> MaxSends, peer |-> MaxPeerFrames, beats |-> MaxBeats]
    /\ calc = NoCalc

\* One thread connects and disconnects, the other disconnects too; heartbeat off
\* (ping interval 0)
InitDisc ==
    /\ InitClient
    /\ mayConnect = {"u1"}
    /\ mayDisconnect = Users
    /\ maySend = {}
    /\ left = [u1 |-> MaxRaceCalls, u2 |-> MaxRaceCalls, peer |-> MaxPeerFrames, beats |-> 0]
    /\ calc = NoCalc

\* One thread connects and sends, the other sends; nobody disconnects
InitSend ==
    /\ InitClient
    /\ mayConnect = {"u1"}
    /\ mayDisconnect = {}
    /\ maySend = Users
    /\ left = [u1 |-> MaxFrames, u2 |-> MaxFrames, peer |-> MaxPeerFrames, beats |-> MaxBeats]
    /\ calc = NoCalc

\* Two threads that call connect; heartbeat off (ping interval 0)
InitConn ==
    /\ InitClient
    /\ mayConnect = Users
    /\ mayDisconnect = {}
    /\ maySend = {}
    /\ left = [u1 |-> MaxRaceCalls, u2 |-> MaxSends, peer |-> MaxPeerFrames, beats |-> 0]
    /\ calc = NoCalc

\* One thread connects and disconnects; nobody sends
\* One thread connects once; the peer sends a burst of frames
InitBurst ==
    /\ InitClient
    /\ mayConnect = {"u1"}
    /\ mayDisconnect = {}
    /\ maySend = {}
    /\ left = [u1 |-> 1, u2 |-> 0, peer |-> MaxBurst, beats |-> 0]
    /\ calc = NoCalc

InitStop ==
    /\ InitClient
    /\ mayConnect = {"u1"}
    /\ mayDisconnect = {"u1"}
    /\ maySend = {}
    /\ left = [u1 |-> MaxCalls, u2 |-> 0, peer |-> MaxPeerFrames, beats |-> MaxBeats]
    /\ calc = NoCalc

\* One thread connects and calls ping; heartbeat off (ping interval 0)
InitPing ==
    /\ InitClient
    /\ mayConnect = {"u1"}
    /\ mayDisconnect = {}
    /\ maySend = {"u1"}
    /\ left = [u1 |-> MaxCalls, u2 |-> 0, peer |-> MaxPeerFrames, beats |-> 0]
    /\ calc = NoCalc

\* A client that no thread calls: the state in which the static functions are called
InitIdle ==
    /\ InitClient
    /\ mayConnect = {}
    /\ mayDisconnect = {}
    /\ maySend = {}
    /\ left = [u1 |-> 0, u2 |-> 0, peer |-> 0, beats |-> 0]

\* ------------------------------------------------------------------ helpers

Goto(t, p) == [pc EXCEPT ![t] = p]
\* The worker ignores every result it gets (part_001:642, 679, 687): only the
\* user threads' results are kept
Result(t, code) == IF t \in Users THEN [rc EXCEPT ![t] = code] ELSE rc
Invoke(ev, t) == Append(cb, [ev |-> ev, th |-> t])

\* One API call of thread t, one peer frame, one heartbeat of the run is used
Use(what) == [left EXCEPT ![what] = @ - 1]

\* NetworkConnection::close (part_001:367-381): the socket is closed; what was
\* written to it and what was in flight on it is gone with it
ConnClose ==
    /\ sock' = FALSE
    /\ wire' = <<>>
    /\ inflight' = <<>>
    /\ netDown' = FALSE
    /\ peerResp' = NoResponse
    /\ responded' = FALSE

\* getState() != WebSocketState::OPEN, the guard of sendFrame (part_001:697)
NotOpenNoGuard == FALSE
NotOpen == state # "OPEN"

\* std::lock_guard<std::mutex> lk(send_mtx_) can be taken (part_001:705)
CanLockNoMutex(t) == TRUE
CanLock(t) == mtx = "free"

\* A send() on the socket succeeds / fails with n <= 0 (part_001:326-330): it
\* fails on a closed socket and on a connection the peer has closed or reset
SendCanSucceed == sock /\ ~netDown
SendCanFail == ~sock \/ netDown

\* sendFrame up to its state check (part_001:696-697): not OPEN returns
\* INVALID_STATE "not open" to position ret; OPEN goes on to the lock
SendFrameEnter(t, op, pl, ret) ==
    IF NotOpen
    THEN /\ pc' = Goto(t, ret)
         /\ rc' = Result(t, "INVALID_STATE")
         /\ sf' = sf
    ELSE /\ pc' = Goto(t, "sf_lock")
         /\ sf' = [sf EXCEPT ![t] = [op |-> op, pl |-> pl, ret |-> ret, fid |-> 0]]
         /\ rc' = rc

\* A chunk of the serialized frame of thread t's sendFrame (part_001:698-704):
\* fin = true, masked = true, the type and the payload of the call
ChunkUnmasked(t, fid, part) ==
    [fid |-> fid, op |-> sf[t].op, pl |-> sf[t].pl, by |-> t, part |-> part,
     fin |-> TRUE, masked |-> FALSE]
Chunk(t, fid, part) ==
    [fid |-> fid, op |-> sf[t].op, pl |-> sf[t].pl, by |-> t, part |-> part,
     fin |-> TRUE, masked |-> TRUE]

\* Bytes handed to send() follow what the socket was given before (part_001:326-331)
SentInFront(c) == <<c>> \o wire
Sent(c) == Append(wire, c)

\* sendFrame: serialize, take send_mtx_, first send() of sendAll (part_001:698-706, 312-335)
SendFrameLock(t) ==
    /\ ~crashed
    /\ pc[t] = "sf_lock"
    /\ CanLock(t)
    /\ \/ /\ SendCanSucceed
          /\ wire' = Sent(Chunk(t, Len(wire) + 1, 1))
          /\ sf' = [sf EXCEPT ![t].fid = Len(wire) + 1]
          /\ mtx' = t
          /\ pc' = Goto(t, "sf_write")
          /\ rc' = rc
       \/ /\ SendCanFail
          /\ rc' = Result(t, "CONNECTION_ERROR")
          /\ pc' = Goto(t, sf[t].ret)
          /\ sf' = [sf EXCEPT ![t] = NoSend]
          /\ UNCHANGED <<wire, mtx>>
    /\ UNCHANGED <<state, stop, worker, crashed, recv_buf, cb, sock, inflight, netDown,
                   peerResp, responded, userVars, runVars>>

\* sendAll: the next send() of the loop, then the lock_guard is released (part_001:315-334)
SendFrameWrite(t) ==
    /\ ~crashed
    /\ pc[t] = "sf_write"
    /\ \/ /\ SendCanSucceed
          /\ wire' = Sent(Chunk(t, sf[t].fid, 2))
          /\ rc' = Result(t, "SUCCESS")
       \/ /\ SendCanFail
          /\ rc' = Result(t, "CONNECTION_ERROR")
          /\ wire' = wire
    /\ mtx' = "free"
    /\ pc' = Goto(t, sf[t].ret)
    /\ sf' = [sf EXCEPT ![t] = NoSend]
    /\ UNCHANGED <<state, stop, worker, crashed, recv_buf, cb, sock, inflight, netDown,
                   peerResp, responded, userVars, runVars>>

\* ------------------------------------------------------------------ send, sendBinary, ping

\* send / sendText / sendBinary / ping (part_001:628-631): sendFrame(type, payload)
SendCall(t, op, pl) ==
    /\ ~crashed
    /\ t \in maySend
    /\ pc[t] = "idle"
    /\ left[t] > 0
    /\ left' = Use(t)
    /\ SendFrameEnter(t, op, pl, "idle")
    /\ UNCHANGED <<state, stop, worker, crashed, mtx, recv_buf, cb, connVars, userVars,
                   roleVars>>

\* ------------------------------------------------------------------ connect

\* A failure path of connect (part_001:578, 583, 591, 593, 596, 603):
\* [conn_.close();] state_.store(CLOSED); [emitError(rc);] return rc
ConnectFailKeepState(t, code, emit, closeConn) ==
    /\ state' = state
    /\ cb' = IF emit THEN Invoke("error", t) ELSE cb
    /\ IF closeConn THEN ConnClose ELSE UNCHANGED connVars
    /\ rc' = Result(t, code)
    /\ pc' = Goto(t, "idle")
    /\ url' = [url EXCEPT ![t] = "none"]
ConnectFail(t, code, emit, closeConn) ==
    /\ state' = "CLOSED"
    /\ cb' = IF emit THEN Invoke("error", t) ELSE cb
    /\ IF closeConn THEN ConnClose ELSE UNCHANGED connVars
    /\ rc' = Result(t, code)
    /\ pc' = Goto(t, "idle")
    /\ url' = [url EXCEPT ![t] = "none"]

\* connect's state check (part_001:571)
ConnectRejectNever(st) == FALSE
ConnectReject(st) == st # "CLOSED"

\* connect, to its state check and URL::parse (part_001:570-573)
ConnectCall(t, u) ==
    /\ ~crashed
    /\ t \in mayConnect
    /\ pc[t] = "idle"
    /\ left[t] > 0
    /\ left' = Use(t)
    /\ opened' = [opened EXCEPT ![t] = FALSE]
    /\ IF ConnectReject(state)
       THEN /\ rc' = Result(t, "INVALID_STATE")
            /\ UNCHANGED <<pc, url>>
       ELSE IF URLparse(u) # "SUCCESS"
       THEN /\ rc' = Result(t, URLparse(u))
            /\ UNCHANGED <<pc, url>>
       ELSE /\ rc' = rc
            /\ pc' = Goto(t, "c_store")
            /\ url' = [url EXCEPT ![t] = u]
    /\ UNCHANGED <<state, stop, worker, crashed, mtx, recv_buf, sf, cb, connVars, dst,
                   roleVars>>

\* state_.store(CONNECTING) (part_001:575)
ConnectStore(t) ==
    /\ ~crashed
    /\ pc[t] = "c_store"
    /\ state' = "CONNECTING"
    /\ cb' = <<>>
    /\ pc' = Goto(t, "c_conn")
    /\ UNCHANGED <<stop, worker, crashed, mtx, recv_buf, sf, rc, connVars, userVars, runVars>>

\* conn_.connect (part_001:577-578, 247-310): getaddrinfo fails (socket_ untouched),
\* no candidate connects (socket_ INVALID), setupSSL fails (close()), or a new socket
ConnectTransport(t) ==
    /\ ~crashed
    /\ pc[t] = "c_conn"
    /\ \/ ConnectFail(t, "CONNECTION_ERROR", TRUE, FALSE)
       \/ ConnectFail(t, "CONNECTION_ERROR", TRUE, TRUE)
       \/ /\ Parsed[url[t]].scheme = <<"w", "s", "s">>
          /\ ConnectFail(t, "SSL_ERROR", TRUE, TRUE)
       \/ /\ sock' = TRUE
          /\ wire' = <<>>
          /\ inflight' = <<>>
          /\ netDown' = FALSE
          /\ peerResp' = NoResponse
          /\ responded' = FALSE
          /\ pc' = Goto(t, "c_send")
          /\ UNCHANGED <<state, cb, rc, url>>
    /\ UNCHANGED <<stop, worker, crashed, mtx, recv_buf, sf, opened, dst, runVars>>

\* The upgrade request on the wire (part_001:500-524): not a frame
Request(t) ==
    [fid |-> 0, op |-> "HANDSHAKE", pl |-> "", by |-> t, part |-> 1, fin |-> TRUE,
     masked |-> FALSE]

\* buildRequest and conn_.sendAll(req) (part_001:580-583)
ConnectSend(t) ==
    /\ ~crashed
    /\ pc[t] = "c_send"
    /\ \/ /\ SendCanSucceed
          /\ wire' = Append(wire, Request(t))
          /\ pc' = Goto(t, "c_read")
          /\ UNCHANGED <<state, cb, sock, inflight, netDown, peerResp, responded, rc, url>>
       \/ /\ SendCanFail
          /\ ConnectFail(t, "CONNECTION_ERROR", TRUE, TRUE)
    /\ UNCHANGED <<stop, worker, crashed, mtx, recv_buf, sf, opened, dst, runVars>>

\* validateResponse (part_001:527-548)
validateResponse(r) ==
    IF ~r.status THEN "HANDSHAKE_ERROR"
    ELSE IF ~r.upgrade THEN "HANDSHAKE_ERROR"
    ELSE IF ~r.connection THEN "HANDSHAKE_ERROR"
    ELSE IF ~r.accept THEN "HANDSHAKE_ERROR"
    ELSE "SUCCESS"

\* The response read loop and the validation (part_001:585-603).  The bytes read
\* after the terminator stay in resp and are dropped: k frames of inflight.
ConnectRead(t) ==
    /\ ~crashed
    /\ pc[t] = "c_read"
    /\ \/ \* left_ms <= 0
          ConnectFail(t, "TIMEOUT", FALSE, TRUE)
       \/ \* recvSome < 0
          /\ ~responded
          /\ ~sock \/ netDown
          /\ ConnectFail(t, "CONNECTION_ERROR", FALSE, TRUE)
       \/ \* resp.size() > 32 * 1024
          /\ responded
          /\ sock
          /\ peerResp.huge
          /\ ConnectFail(t, "HANDSHAKE_ERROR", FALSE, TRUE)
       \/ /\ responded
          /\ sock
          /\ ~peerResp.huge
          /\ validateResponse(peerResp) # "SUCCESS"
          /\ ConnectFail(t, validateResponse(peerResp), TRUE, TRUE)
       \/ /\ responded
          /\ sock
          /\ ~peerResp.huge
          /\ validateResponse(peerResp) = "SUCCESS"
          /\ \E k \in 0..Len(inflight) :
                inflight' = SubSeq(inflight, k + 1, Len(inflight))
          /\ pc' = Goto(t, "c_open")
          /\ UNCHANGED <<state, cb, sock, wire, netDown, peerResp, responded, rc, url>>
    /\ UNCHANGED <<stop, worker, crashed, mtx, recv_buf, sf, opened, dst, runVars>>

\* state_.store(OPEN) (part_001:606)
ConnectOpen(t) ==
    /\ ~crashed
    /\ pc[t] = "c_open"
    /\ state' = "OPEN"
    /\ pc' = Goto(t, "c_onopen")
    /\ UNCHANGED <<stop, worker, crashed, mtx, recv_buf, sf, rc, cb, connVars, userVars,
                   runVars>>

\* if (on_open_) on_open_(); stop_ = false (part_001:607-609)
ConnectOnOpen(t) ==
    /\ ~crashed
    /\ pc[t] = "c_onopen"
    /\ cb' = Invoke("open", t)
    /\ opened' = [opened EXCEPT ![t] = TRUE]
    /\ stop' = FALSE
    /\ pc' = Goto(t, "c_spawn")
    /\ UNCHANGED <<state, worker, crashed, mtx, recv_buf, sf, rc, connVars, url, dst, runVars>>

\* worker_ = std::thread(runLoop); return SUCCESS (part_001:610-611).  Assigning to
\* a joinable std::thread calls std::terminate.
ConnectSpawn(t) ==
    /\ ~crashed
    /\ pc[t] = "c_spawn"
    /\ IF worker # "none"
       THEN /\ crashed' = TRUE
            /\ UNCHANGED <<worker, pc, rc, recv_buf, url>>
       ELSE /\ worker' = "running"
            /\ recv_buf' = <<>>
            /\ pc' = [pc EXCEPT ![t] = "idle", ![Worker] = "w_top"]
            /\ rc' = Result(t, "SUCCESS")
            /\ url' = [url EXCEPT ![t] = "none"]
            /\ crashed' = crashed
    /\ UNCHANGED <<state, stop, mtx, sf, cb, connVars, opened, dst, runVars>>

\* ------------------------------------------------------------------ disconnect

\* disconnect: st = getState(); CLOSED returns (part_001:615-617)
DisconnectCall(t) ==
    /\ ~crashed
    /\ t \in mayDisconnect
    /\ pc[t] = "idle"
    /\ left[t] > 0
    /\ left' = Use(t)
    /\ IF state = "CLOSED"
       THEN UNCHANGED <<pc, dst>>
       ELSE /\ dst' = [dst EXCEPT ![t] = state]
            /\ pc' = Goto(t, IF state = "OPEN" THEN "d_send" ELSE "d_stop")
    /\ UNCHANGED <<state, stop, worker, crashed, mtx, recv_buf, sf, rc, cb, connVars, url,
                   opened, roleVars>>

\* sendFrame(FrameType::CLOSE, std::string()), best effort (part_001:617-620)
DisconnectSendClose(t) ==
    /\ ~crashed
    /\ pc[t] = "d_send"
    /\ SendFrameEnter(t, "CLOSE", "", "d_stop")
    /\ UNCHANGED <<state, stop, worker, crashed, mtx, recv_buf, cb, connVars, userVars,
                   runVars>>

\* stop_ = true (part_001:621)
DisconnectStop(t) ==
    /\ ~crashed
    /\ pc[t] = "d_stop"
    /\ stop' = TRUE
    /\ pc' = Goto(t, "d_join")
    /\ UNCHANGED <<state, worker, crashed, mtx, recv_buf, sf, rc, cb, connVars, userVars,
                   runVars>>

\* worker_.join() returns when runLoop has returned (part_001:622)
JoinReadyNoWait == TRUE
JoinReady == worker # "running"

\* if (worker_.joinable()) worker_.join() (part_001:622)
DisconnectJoin(t) ==
    /\ ~crashed
    /\ pc[t] = "d_join"
    /\ JoinReady
    /\ worker' = IF worker = "exited" THEN "none" ELSE worker
    /\ pc' = Goto(t, "d_close")
    /\ UNCHANGED <<state, stop, crashed, mtx, recv_buf, sf, rc, cb, connVars, userVars,
                   runVars>>

\* The state disconnect stores at its end (part_001:624)
DisconnectedStateOpen == "OPEN"
DisconnectedState == "CLOSED"

\* conn_.close(); state_.store(CLOSED); if (on_close_) on_close_() (part_001:623-625)
DisconnectClose(t) ==
    /\ ~crashed
    /\ pc[t] = "d_close"
    /\ ConnClose
    /\ state' = DisconnectedState
    /\ cb' = Invoke("close", t)
    /\ pc' = Goto(t, "idle")
    /\ dst' = [dst EXCEPT ![t] = "CLOSED"]
    /\ UNCHANGED <<stop, worker, crashed, mtx, recv_buf, sf, rc, url, opened, runVars>>

\* ------------------------------------------------------------------ runLoop (the worker)

\* recv_buf.erase(0, used): the frame that was parsed goes, unless used is 0
\* (part_001:662)
Erase(buf) == IF Head(buf).stuck THEN buf ELSE Tail(buf)

\* if (recv_buf.empty()) break (part_001:663)
AfterErase == IF Erase(recv_buf) # <<>> THEN "w_parse" ELSE "w_top"

\* while (!stop_) and the periodic ping (part_001:637-645)
LoopTop ==
    /\ ~crashed
    /\ pc[Worker] = "w_top"
    /\ IF stop
       THEN /\ worker' = "exited"
            /\ pc' = Goto(Worker, "off")
            /\ UNCHANGED <<sf, rc, left>>
       ELSE /\ worker' = worker
            /\ \/ \* the ping interval has elapsed: sendFrame(PING, ""), result ignored
                  /\ left.beats > 0
                  /\ left' = Use("beats")
                  /\ SendFrameEnter(Worker, "PING", "", "w_recv")
               \/ /\ pc' = Goto(Worker, "w_recv")
                  /\ UNCHANGED <<sf, rc, left>>
    /\ UNCHANGED <<state, stop, crashed, mtx, recv_buf, cb, connVars, userVars, roleVars>>

\* conn_.recvSome(tmp, sizeof(tmp), 200) (part_001:647-654, 338-365): n < 0 breaks
\* the loop, n == 0 is a timeout slice, n > 0 appends to recv_buf
LoopRecv ==
    /\ ~crashed
    /\ pc[Worker] = "w_recv"
    /\ \/ \* fd < 0, select or recv error, peer closed
          /\ ~sock \/ netDown
          /\ worker' = "exited"
          /\ pc' = Goto(Worker, "off")
          /\ recv_buf' = <<>>
          /\ UNCHANGED inflight
       \/ \* timeout slice
          /\ sock
          /\ inflight = <<>>
          /\ ~netDown
          /\ pc' = Goto(Worker, "w_top")
          /\ UNCHANGED <<recv_buf, inflight, worker>>
       \/ /\ sock
          /\ inflight # <<>>
          /\ \E k \in 1..Len(inflight) :
                /\ recv_buf' = recv_buf \o SubSeq(inflight, 1, k)
                /\ inflight' = SubSeq(inflight, k + 1, Len(inflight))
          /\ pc' = Goto(Worker, "w_parse")
          /\ worker' = worker
    /\ UNCHANGED <<state, stop, crashed, mtx, sf, rc, cb, sock, wire, netDown, peerResp,
                   responded, userVars, runVars>>

\* the payload of the PONG that answers PING frame f (part_001:679)
PongPayloadEmpty(f) == ""
PongPayload(f) == f.pl

\* WebSocketFrame::parse succeeded; handleFrame(f) (part_001:656-694)
HandleFrame ==
    /\ ~crashed
    /\ pc[Worker] = "w_parse"
    /\ recv_buf # <<>>
    /\ LET f == Head(recv_buf) IN
       CASE f.op = "TEXT" ->
              /\ cb' = Invoke("text", Worker)
              /\ recv_buf' = Erase(recv_buf)
              /\ pc' = Goto(Worker, AfterErase)
              /\ UNCHANGED <<sf, rc>>
         [] f.op = "BINARY" ->
              /\ cb' = Invoke("binary", Worker)
              /\ recv_buf' = Erase(recv_buf)
              /\ pc' = Goto(Worker, AfterErase)
              /\ UNCHANGED <<sf, rc>>
         [] f.op = "PING" ->
              \* reply pong with same payload
              /\ SendFrameEnter(Worker, "PONG", PongPayload(f), "w_erase")
              /\ UNCHANGED <<cb, recv_buf>>
         [] f.op = "CLOSE" ->
              \* echo close and stop
              /\ SendFrameEnter(Worker, "CLOSE", "", "w_closed")
              /\ UNCHANGED <<cb, recv_buf>>
         [] OTHER ->
              \* PONG: ignore; default: break
              /\ recv_buf' = Erase(recv_buf)
              /\ pc' = Goto(Worker, AfterErase)
              /\ UNCHANGED <<cb, sf, rc>>
    /\ UNCHANGED <<state, stop, worker, crashed, mtx, connVars, userVars, runVars>>

\* after the PONG reply: recv_buf.erase(0, used) (part_001:679-680, 662-663)
AfterPong ==
    /\ ~crashed
    /\ pc[Worker] = "w_erase"
    /\ recv_buf' = Erase(recv_buf)
    /\ pc' = Goto(Worker, AfterErase)
    /\ UNCHANGED <<state, stop, worker, crashed, mtx, sf, rc, cb, connVars, userVars, runVars>>

\* after the CLOSE echo: stop_ = true; recv_buf.erase(0, used) (part_001:687-689, 662-663)
AfterCloseEcho ==
    /\ ~crashed
    /\ pc[Worker] = "w_closed"
    /\ stop' = TRUE
    /\ recv_buf' = Erase(recv_buf)
    /\ pc' = Goto(Worker, AfterErase)
    /\ UNCHANGED <<state, worker, crashed, mtx, sf, rc, cb, connVars, userVars, runVars>>

\* A message callback that calls disconnect (part_001:670-673, 614-620): the worker
\* invokes on_text_ or on_binary_, and the callback enters disconnect on the
\* worker's thread: st = getState(), the CLOSE frame if st is OPEN
CallbackDisconnect ==
    /\ ~crashed
    /\ pc[Worker] = "w_parse"
    /\ recv_buf # <<>>
    /\ Head(recv_buf).op \in {"TEXT", "BINARY"}
    /\ cb' = Invoke(IF Head(recv_buf).op = "TEXT" THEN "text" ELSE "binary", Worker)
    /\ IF state = "CLOSED"
       THEN /\ pc' = Goto(Worker, "w_return")
            /\ UNCHANGED <<sf, rc>>
       ELSE IF state = "OPEN"
       THEN SendFrameEnter(Worker, "CLOSE", "", "wd_stop")
       ELSE /\ pc' = Goto(Worker, "wd_stop")
            /\ UNCHANGED <<sf, rc>>
    /\ UNCHANGED <<state, stop, worker, crashed, mtx, recv_buf, connVars, userVars, runVars>>

\* stop_ = true in the callback's disconnect (part_001:621)
CallbackStop ==
    /\ ~crashed
    /\ pc[Worker] = "wd_stop"
    /\ stop' = TRUE
    /\ pc' = Goto(Worker, "wd_join")
    /\ UNCHANGED <<state, worker, crashed, mtx, recv_buf, sf, rc, cb, connVars, userVars,
                   runVars>>

\* if (worker_.joinable()) worker_.join() on the worker's own thread (part_001:622):
\* worker_ is joinable, and join throws std::system_error
\* (resource_deadlock_would_occur).  The exception leaves disconnect; a callback
\* that catches it returns to handleFrame, otherwise it leaves the thread's
\* function and std::terminate is called.
CallbackJoin(catches) ==
    /\ ~crashed
    /\ pc[Worker] = "wd_join"
    /\ IF catches
       THEN /\ pc' = Goto(Worker, "w_return")
            /\ crashed' = crashed
       ELSE /\ crashed' = TRUE
            /\ pc' = pc
    /\ UNCHANGED <<state, stop, worker, mtx, recv_buf, sf, rc, cb, connVars, userVars, runVars>>

\* the callback has returned: recv_buf.erase(0, used) (part_001:662-663)
CallbackReturn ==
    /\ ~crashed
    /\ pc[Worker] = "w_return"
    /\ recv_buf' = Erase(recv_buf)
    /\ pc' = Goto(Worker, AfterErase)
    /\ UNCHANGED <<state, stop, worker, crashed, mtx, sf, rc, cb, connVars, userVars, runVars>>

\* ------------------------------------------------------------------ the peer

OkResponse == [status |-> TRUE, upgrade |-> TRUE, connection |-> TRUE, accept |-> TRUE, huge |-> FALSE]

\* The server answers the upgrade request it has received
PeerRespond(r) ==
    /\ ~crashed
    /\ sock
    /\ ~netDown
    /\ ~responded
    /\ wire # <<>>
    /\ responded' = TRUE
    /\ peerResp' = r
    /\ UNCHANGED <<state, stop, worker, crashed, mtx, recv_buf, pc, sf, rc, cb, sock, wire,
                   inflight, netDown, userVars, runVars>>

\* The server sends a frame after its 101 response
PeerSend(f) ==
    /\ ~crashed
    /\ sock
    /\ ~netDown
    /\ responded
    /\ peerResp = OkResponse
    /\ left.peer > 0
    /\ left' = Use("peer")
    /\ inflight' = Append(inflight, f)
    /\ UNCHANGED <<state, stop, worker, crashed, mtx, recv_buf, pc, sf, rc, cb, sock, wire,
                   netDown, peerResp, responded, userVars, roleVars>>

\* The server closes the connection, or the network fails
PeerDrop ==
    /\ ~crashed
    /\ sock
    /\ ~netDown
    /\ netDown' = TRUE
    /\ UNCHANGED <<state, stop, worker, crashed, mtx, recv_buf, pc, sf, rc, cb, sock, wire,
                   inflight, peerResp, responded, userVars, runVars>>

\* ------------------------------------------------------------------ frame codec calls

\* The frames that are encoded and decoded: every final flag, every defined
\* opcode, masked with a 4-byte key or not, payloads of the boundary lengths
Opcodes == {0, 1, 2, 8, 9, 10}
MaskKey == <<18, 52, 171, 255>>
PayloadOf(n) == [i \in 1..n |-> (i * 37 + 11) % 256]
PayloadSizes == {0, 1, 125, 126, 127, MaxPayload - 1, MaxPayload}
FrameOf(fin, op, m, n) ==
    [fin |-> fin, opcode |-> op, masked |-> m, mask_key |-> IF m THEN MaskKey ELSE <<>>,
     payload |-> PayloadOf(n)]
Frames(fins, ops, sizes) ==
    {FrameOf(fin, op, m, n) : fin \in fins, op \in ops, m \in BOOLEAN, n \in sizes}

\* The payload lengths of the frames that are split at every byte
ShortSizes == {0, 1, 125, 126}

\* Where the bytes B of a frame are split: everywhere in a short frame; in the
\* header, in the middle and before the last byte of a long one
Splits(B) ==
    IF Len(B) <= MaxAllSplits THEN 0..(Len(B) - 1)
    ELSE 0..15 \cup {Len(B) \div 2, Len(B) - 1}

\* What follows a frame in the buffer: nothing, one byte, an empty PONG frame
Trails == {<<>>, <<129>>, <<138, 0>>}

CodecCall(f) ==
    [fn |-> "codec", stage |-> "frame", frame |-> f, bytes |-> <<>>, k |-> 0, trail |-> <<>>,
     buf |-> <<>>, res |-> Incomplete(NoFrame)]

InitCodec ==
    /\ InitIdle
    /\ calc \in {CodecCall(f) : f \in Frames(BOOLEAN, Opcodes, PayloadSizes)}

\* The frames that are decoded piece by piece: the short ones, and final BINARY
\* frames with a 64-bit length
InitFeed ==
    /\ InitIdle
    /\ calc \in {CodecCall(f) : f \in Frames(BOOLEAN, Opcodes, ShortSizes)
                                       \cup Frames({TRUE}, {2}, {MaxPayload})}

\* std::string data = f.serialize()
Serialize ==
    /\ calc.fn = "codec"
    /\ calc.stage = "frame"
    /\ calc' = [calc EXCEPT !.stage = "bytes", !.bytes = serialize(calc.frame)]
    /\ UNCHANGED clientVars

\* WebSocketFrame::parse(data, used, f)
Parse ==
    /\ calc.fn = "codec"
    /\ calc.stage = "bytes"
    /\ calc' = [calc EXCEPT !.stage = "parsed", !.buf = calc.bytes, !.res = parse(calc.bytes)]
    /\ UNCHANGED clientVars

\* One round of runLoop's parse loop on buffer b (part_001:657-663): parse; on
\* failure break, on success erase the consumed bytes
ParseRound(b) ==
    LET r == parse(b)
    IN  [res |-> r,
         buf |-> IF r.code = "SUCCESS" THEN SubSeq(b, r.consumed + 1, Len(b)) ELSE b]

\* The first k bytes of the frame are in the buffer: recv_buf.append, parse
FeedFirst(k) ==
    /\ calc.fn = "codec"
    /\ calc.stage = "bytes"
    /\ LET r == ParseRound(SubSeq(calc.bytes, 1, k))
       IN  calc' = [calc EXCEPT !.stage = "fed1", !.k = k, !.buf = r.buf, !.res = r.res]
    /\ UNCHANGED clientVars

\* The rest of the frame and what follows it arrive: recv_buf.append, parse
FeedRest(trail) ==
    /\ calc.fn = "codec"
    /\ calc.stage = "fed1"
    /\ LET r == ParseRound(calc.buf \o SubSeq(calc.bytes, calc.k + 1, Len(calc.bytes)) \o trail)
       IN  calc' = [calc EXCEPT !.stage = "fed2", !.trail = trail, !.buf = r.buf, !.res = r.res]
    /\ UNCHANGED clientVars

\* ------------------------------------------------------------------ runLoop's decoding

\* config_.getMaxFrameSize(): the default (part_001:86) or setMaxFrameSize(1000)
MaxFrameSizes == {1000, 1024 * 1024}

\* The payload length a header announces: the 7 bits of the second byte and the
\* bytes of the extended length
Announce(len7, ext) == [len7 |-> len7, ext |-> ext]
Announced ==
    {Announce(125, <<>>),
     Announce(126, <<3, 232>>),                          \* 1000
     Announce(126, <<3, 233>>),                          \* 1001
     Announce(127, <<0, 0, 0, 0, 0, 16, 0, 0>>),         \* 2^20
     Announce(127, <<0, 0, 0, 0, 0, 16, 0, 1>>),         \* 2^20 + 1
     Announce(127, <<128, 0, 0, 0, 0, 0, 0, 0>>),        \* 2^63
     Announce(127, <<128, 0, 0, 0, 0, 0, 0, 5>>),        \* 2^63 + 5
     Announce(127, <<200, 1, 2, 3, 4, 5, 6, 7>>),
     Announce(127, <<255, 255, 255, 255, 255, 255, 255, 255>>),   \* 2^64 - 1
     Announce(127, <<255, 255, 255, 255, 255, 255, 255, 246>>),   \* 2^64 - 10
     Announce(127, <<255, 255, 255, 255, 255, 255, 255, 242>>)}   \* 2^64 - 14

\* the announced length as a uint64_t
AnnouncedLength(a) ==
    IF a.len7 = 126 THEN U64(BigEndian(a.ext, 0, 2, 0))
    ELSE IF a.len7 = 127 THEN BigEndian64(a.ext, 0)
    ELSE U64(a.len7)

\* How many bytes of payload the peer has sent behind the header: none, a few, or
\* all of them where the frame is short
PayloadArrived(a) ==
    {0, 1, 20} \cup (IF Less64(1001, AnnouncedLength(a)) THEN {} ELSE {AnnouncedLength(a).low})

\* The bytes of the header the peer writes: final, opcode, mask bit, length, key
HeaderBytes(opcode, masked, a) ==
    <<128 + opcode, (IF masked THEN 128 ELSE 0) + a.len7>> \o a.ext
        \o (IF masked THEN MaskKey ELSE <<>>)

DecodeCall(max, opcode, masked, a, avail) ==
    [fn |-> "decode", stage |-> "sent", max_frame_size |-> max, opcode |-> opcode,
     masked |-> masked, announced |-> a, avail |-> avail, recv_buf |-> <<>>,
     res |-> Incomplete(NoFrame), dispatched |-> 0, delivered |-> 0]

InitDecode ==
    /\ InitIdle
    /\ \E a \in Announced :
          calc \in {DecodeCall(max, op, m, a, n) :
                       max \in MaxFrameSizes, op \in {1, 2, 9}, m \in BOOLEAN, n \in PayloadArrived(a)}

\* recv_buf.append(tmp, tmp + n) (part_001:654): the header and the payload bytes
\* the peer has sent so far
LoopAppend ==
    /\ calc.fn = "decode"
    /\ calc.stage = "sent"
    /\ calc' = [calc EXCEPT !.stage = "parsing",
                            !.recv_buf = HeaderBytes(calc.opcode, calc.masked, calc.announced)
                                             \o PayloadOf(calc.avail)]
    /\ UNCHANGED clientVars

\* One round of the parse loop (part_001:657-663): parse; on failure break and
\* receive again; on success handleFrame (TEXT and BINARY invoke a callback),
\* erase the consumed bytes, and break if the buffer is empty
LoopParse ==
    /\ calc.fn = "decode"
    /\ calc.stage = "parsing"
    /\ calc.dispatched < MaxDispatch
    /\ LET r == ParseRound(calc.recv_buf)
       IN  IF r.res.code # "SUCCESS"
           THEN calc' = [calc EXCEPT !.stage = "receiving", !.res = r.res]
           ELSE calc' = [calc EXCEPT !.stage = IF r.buf = <<>> THEN "receiving" ELSE "parsing",
                                     !.res = r.res,
                                     !.recv_buf = r.buf,
                                     !.dispatched = @ + 1,
                                     !.delivered = IF r.res.frame.opcode \in {1, 2}
                                                   THEN @ + 1 ELSE @]
    /\ UNCHANGED clientVars

\* The worker's decoding alone: bytes arrive and the parse loop runs on them
SpecDecode == InitDecode /\ [][LoopAppend \/ LoopParse]_vars

\* ------------------------------------------------------------------ runLoop's heartbeat

\* The timeout of one recvSome, a slice, in ms (part_001:648)
Slice == 200

\* config_.getPingInterval() in ms: 0 (no heartbeat), or a period that is or is
\* not a multiple of the slice
PingIntervals == {0, 300, 400}

\* How long a recvSome takes: data arrives in the slice, or the slice times out
RecvTimes == {50, 100, Slice}

\* now - last_ping >= getPingInterval() (part_001:641)
ElapsedLate(now, last_ping, interval) == now - last_ping > interval
Elapsed(now, last_ping, interval) == now - last_ping >= interval

\* The worker's clock and timer: steady_clock's now, runLoop's last_ping, the
\* times at which sendFrame(PING, "") was called and at which a PING was written,
\* and whether the connection is up (a write on it succeeds)
BeatCall(interval) ==
    [fn |-> "beat", stage |-> "top", interval |-> interval, now |-> 0, last_ping |-> 0,
     up |-> TRUE, called |-> <<>>, written |-> <<>>]

\* auto last_ping = steady_clock::now(), on an OPEN client (part_001:636)
InitBeat ==
    /\ InitIdle
    /\ calc \in {BeatCall(interval) : interval \in PingIntervals}

\* The top of the loop, a slice boundary (part_001:637-645): the periodic ping;
\* sendFrame writes the PING if the connection is up, its result is ignored
BeatTop ==
    /\ calc.fn = "beat"
    /\ calc.stage = "top"
    /\ IF calc.interval > 0 /\ Elapsed(calc.now, calc.last_ping, calc.interval)
       THEN calc' = [calc EXCEPT !.stage = "recv",
                                 !.called = Append(@, calc.now),
                                 !.written = IF calc.up THEN Append(@, calc.now) ELSE @,
                                 !.last_ping = calc.now]
       ELSE calc' = [calc EXCEPT !.stage = "recv"]
    /\ UNCHANGED clientVars

\* conn_.recvSome(tmp, sizeof(tmp), 200) (part_001:647-653): it returns within the
\* slice, with n < 0 (break) when the connection is down
BeatRecv(d) ==
    /\ calc.fn = "beat"
    /\ calc.stage = "recv"
    /\ calc.now + d <= MaxTime
    /\ IF calc.up
       THEN calc' = [calc EXCEPT !.stage = "top", !.now = @ + d]
       ELSE calc' = [calc EXCEPT !.stage = "exited"]
    /\ UNCHANGED clientVars

\* The peer closes the connection, or the network fails
BeatDrop ==
    /\ calc.fn = "beat"
    /\ calc.stage # "exited"
    /\ calc.up
    /\ calc' = [calc EXCEPT !.up = FALSE]
    /\ UNCHANGED clientVars

\* The worker's loop with its clock
SpecBeat == InitBeat /\ [][BeatTop \/ (\E d \in RecvTimes : BeatRecv(d)) \/ BeatDrop]_vars

\* ------------------------------------------------------------------ URL parser calls

\* The URLs that are parsed: scheme://host[:port][path]
Schemes == {<<"w", "s">>, <<"w", "s", "s">>, <<"h", "t", "t", "p">>, <<"i", "n", "v", "a", "l", "i", "d">>}
Hosts == {<<"h">>, <<"e", "x", "a", "m", "p", "l", "e", ".", "c", "o", "m">>, <<"a", "?", "b", "@", "c">>}
Ports == {1, 80, 443, 8080, MaxPort}
Paths == {<<"/">>, <<"/", "c", "h", "a", "t">>, <<"/", "p", ":", "/", "/", "q", ":", "1", "/">>}

URLCall(scheme, host, port, path) ==
    [fn |-> "url", stage |-> "parts", scheme |-> scheme, host |-> host, port |-> port,
     path |-> path, text |-> <<>>, res |-> NoURL]

InitURL ==
    /\ InitIdle
    /\ calc \in {URLCall(sc, h, po, pa) : sc \in Schemes, h \in Hosts, po \in Ports \cup {0},
                                          pa \in Paths \cup {<<>>}}

\* The caller writes the URL
URLWrite ==
    /\ calc.fn = "url"
    /\ calc.stage = "parts"
    /\ calc' = [calc EXCEPT !.stage = "text",
                            !.text = URLText(calc.scheme, calc.host, calc.port, calc.path)]
    /\ UNCHANGED clientVars

\* URL u; auto pr = u.parse(url) (part_001:572)
URLParse ==
    /\ calc.fn = "url"
    /\ calc.stage = "text"
    /\ calc' = [calc EXCEPT !.stage = "parsed", !.res = URL_parse(calc.text)]
    /\ UNCHANGED clientVars

\* The port texts that are parsed: empty, with a character that is no digit, 0,
\* in and out of 1..65535, with zeros in front, and around 2^31, 2^32, 2^63 and 2^64
PortTexts ==
    {<<>>,
     <<"0">>,
     <<"1">>,
     <<"8", "0">>,
     <<"6", "5", "5", "3", "5">>,
     <<"6", "5", "5", "3", "6">>,
     <<"9", "9", "9", "9", "9">>,
     <<"0", "0", "0", "8", "0">>,
     <<"0", "0", "0", "0", "0", "0", "0", "0", "0", "0", "0", "0", "0", "0", "0", "0", "0", "0", "0", "4", "4", "3">>,
     <<"0", "0", "0">>,
     <<"8", "a">>,
     <<"a", "8", "0">>,
     <<"-", "1">>,
     <<"+", "8", "0">>,
     <<" ", "8", "0">>,
     <<"8", " ", "0">>,
     <<"2", "1", "4", "7", "4", "8", "3", "6", "4", "7">>,
     <<"2", "1", "4", "7", "4", "8", "3", "6", "4", "8">>,
     <<"4", "2", "9", "4", "9", "6", "7", "2", "9", "5">>,
     <<"4", "2", "9", "4", "9", "6", "7", "2", "9", "6">>,
     <<"4", "2", "9", "4", "9", "6", "7", "3", "7", "6">>,
     <<"4", "2", "9", "5", "0", "3", "2", "8", "3", "1">>,
     <<"4", "2", "9", "5", "0", "3", "2", "8", "3", "2">>,
     <<"9", "2", "2", "3", "3", "7", "2", "0", "3", "6", "8", "5", "4", "7", "7", "5", "8", "0", "7">>,
     <<"9", "2", "2", "3", "3", "7", "2", "0", "3", "6", "8", "5", "4", "7", "7", "5", "8", "0", "8">>,
     <<"1", "8", "4", "4", "6", "7", "4", "4", "0", "7", "3", "7", "0", "9", "5", "5", "1", "6", "9", "6">>,
     <<"9", "9", "9", "9", "9", "9", "9", "9", "9", "9", "9", "9", "9", "9", "9", "9", "9", "9", "9", "9", "9", "9", "9">>}

\* ws://h:<port text>/ or wss://h:<port text>/, parsed by a build whose long has
\* long_bits bits
PortCall(scheme, port, long_bits) ==
    [fn |-> "port", stage |-> "text", long_bits |-> long_bits, port |-> port,
     text |-> scheme \o <<":", "/", "/", "h", ":">> \o port \o <<"/">>, res |-> NoURL]

InitPort ==
    /\ InitIdle
    /\ calc \in {PortCall(sc, po, lb) : sc \in {<<"w", "s">>, <<"w", "s", "s">>}, po \in PortTexts,
                                        lb \in LongBits}

\* URL u; auto pr = u.parse(url) (part_001:572), on a URL with a port text
PortParse ==
    /\ calc.fn = "port"
    /\ calc.stage = "text"
    /\ calc' = [calc EXCEPT !.stage = "parsed", !.res = URL_parseOn(calc.text, calc.long_bits)]
    /\ UNCHANGED clientVars

\* The URLs with a query that are parsed: scheme://host[:port]path?query
Queries ==
    {<<"x", "=", "1">>, <<"a", "=", "1", "&", "b", "=", "/", "2">>, <<"q", "?", "r">>, <<>>}

QueryCall(scheme, host, port, path, query) ==
    [fn |-> "query", stage |-> "text", path |-> path, query |-> query,
     text |-> URLText(scheme, host, port, path) \o <<"?">> \o query, res |-> NoURL]

InitQuery ==
    /\ InitIdle
    /\ calc \in {QueryCall(sc, h, po, pa, q) :
                    sc \in {<<"w", "s">>, <<"w", "s", "s">>},
                    h \in {<<"h">>, <<"e", "x", "a", "m", "p", "l", "e", ".", "c", "o", "m">>},
                    po \in {0, 8080}, pa \in Paths, q \in Queries}

\* URL u; auto pr = u.parse(url) (part_001:572), on a URL with a query
QueryParse ==
    /\ calc.fn = "query"
    /\ calc.stage = "text"
    /\ calc' = [calc EXCEPT !.stage = "parsed", !.res = URL_parse(calc.text)]
    /\ UNCHANGED clientVars

\* ------------------------------------------------------------------ handshake response

\* The characters Utils::trim removes from both ends (part_001:154-159)
Blanks == {" ", "\t", "\r", "\n"}

\* Utils::trim: from the first to the last character that is not a blank
trim(s) ==
    LET keep == {i \in 1..Len(s) : s[i] \notin Blanks}
    IN  IF keep = {} THEN <<>>
        ELSE SubSeq(s, CHOOSE b \in keep : \A j \in keep : b <= j,
                       CHOOSE e \in keep : \A j \in keep : j <= e)

\* Utils::split: std::getline until the stream ends; a delimiter at the very end
\* opens no further item
RECURSIVE split(_, _)
split(s, delim) ==
    IF s = <<>> THEN <<>>
    ELSE LET p == Find(s, <<delim>>)
         IN  IF p = npos THEN <<s>>
             ELSE <<Substr(s, 0, p)>> \o split(SubstrFrom(s, p + 1), delim)

UpperCase == <<"A", "B", "C", "D", "E", "F", "G", "H", "I", "J", "K", "L", "M", "N", "O", "P", "Q", "R", "S", "T", "U", "V", "W", "X", "Y", "Z">>
LowerCase == <<"a", "b", "c", "d", "e", "f", "g", "h", "i", "j", "k", "l", "m", "n", "o", "p", "q", "r", "s", "t", "u", "v", "w", "x", "y", "z">>

\* ::tolower on one character, Utils::toLower on a string (part_001:169-172)
tolower(c) ==
    IF \E i \in DOMAIN UpperCase : UpperCase[i] = c
    THEN LowerCase[CHOOSE i \in DOMAIN UpperCase : UpperCase[i] = c]
    ELSE c
toLower(s) == [i \in DOMAIN s |-> tolower(s[i])]

NoFlags == [has_upgrade |-> FALSE, has_connection |-> FALSE, has_accept |-> FALSE,
            returned |-> FALSE]

\* The loop over the header lines of validateResponse (part_001:533-544): it ends at
\* the first empty line, and passes over a line without ':'
RECURSIVE validateLines(_, _, _, _)
validateLines(lines, i, expected_accept_b64, has) ==
    IF i > Len(lines) THEN has
    ELSE LET ln == trim(lines[i])
             c == Find(ln, <<":">>)
             k == toLower(trim(Substr(ln, 0, c)))
             v == trim(SubstrFrom(ln, c + 1))
         IN  IF ln = <<>> THEN has
             ELSE IF c = npos THEN validateLines(lines, i + 1, expected_accept_b64, has)
             ELSE IF k = <<"u", "p", "g", "r", "a", "d", "e">> /\ Find(toLower(v), <<"w", "e", "b", "s", "o", "c", "k", "e", "t">>) # npos
             THEN validateLines(lines, i + 1, expected_accept_b64,
                                [has EXCEPT !.has_upgrade = TRUE])
             ELSE IF k = <<"c", "o", "n", "n", "e", "c", "t", "i", "o", "n">> /\ Find(toLower(v), <<"u", "p", "g", "r", "a", "d", "e">>) # npos
             THEN validateLines(lines, i + 1, expected_accept_b64,
                                [has EXCEPT !.has_connection = TRUE])
             ELSE IF k = <<"s", "e", "c", "-", "w", "e", "b", "s", "o", "c", "k", "e", "t", "-", "a", "c", "c", "e", "p", "t">> /\ v = expected_accept_b64
             THEN validateLines(lines, i + 1, expected_accept_b64,
                                [has EXCEPT !.has_accept = TRUE])
             ELSE validateLines(lines, i + 1, expected_accept_b64, has)

\* WebSocketHandshake::validateResponse (part_001:527-550) on the text of a
\* response: its result code
WebSocketHandshake_validateResponse(resp, expected_accept_b64) ==
    LET lines == split(resp, "\n")
        has == validateLines(lines, 2, expected_accept_b64, NoFlags)
    IN  IF lines = <<>> THEN "HANDSHAKE_ERROR"
        ELSE IF Find(trim(lines[1]), <<"H", "T", "T", "P", "/", "1", ".", "1", " ", "1", "0", "1">>) = npos THEN "HANDSHAKE_ERROR"
        ELSE IF ~has.has_upgrade THEN "HANDSHAKE_ERROR"
        ELSE IF ~has.has_connection THEN "HANDSHAKE_ERROR"
        ELSE IF ~has.has_accept THEN "HANDSHAKE_ERROR"
        ELSE "SUCCESS"

\* The loop over the header lines of parseHandshakeResponse
\* (src/websocket_client.hpp:955-976): the Upgrade value is compared with
\* "websocket", and an accept value other than accept_key returns at once
RECURSIVE parseLines(_, _, _, _)
parseLines(lines, i, accept_key, has) ==
    IF i > Len(lines) THEN has
    ELSE LET line == trim(lines[i])
             colon_pos == Find(line, <<":">>)
             key == toLower(trim(Substr(line, 0, colon_pos)))
             value == trim(SubstrFrom(line, colon_pos + 1))
         IN  IF line = <<>> THEN has
             ELSE IF colon_pos = npos THEN parseLines(lines, i + 1, accept_key, has)
             ELSE IF key = <<"u", "p", "g", "r", "a", "d", "e">> /\ toLower(value) = <<"w", "e", "b", "s", "o", "c", "k", "e", "t">>
             THEN parseLines(lines, i + 1, accept_key, [has EXCEPT !.has_upgrade = TRUE])
             ELSE IF key = <<"c", "o", "n", "n", "e", "c", "t", "i", "o", "n">> /\ Find(toLower(value), <<"u", "p", "g", "r", "a", "d", "e">>) # npos
             THEN parseLines(lines, i + 1, accept_key, [has EXCEPT !.has_connection = TRUE])
             ELSE IF key = <<"s", "e", "c", "-", "w", "e", "b", "s", "o", "c", "k", "e", "t", "-", "a", "c", "c", "e", "p", "t">>
             THEN IF value # accept_key THEN [has EXCEPT !.returned = TRUE]
                  ELSE parseLines(lines, i + 1, accept_key, [has EXCEPT !.has_accept = TRUE])
             ELSE parseLines(lines, i + 1, accept_key, has)

\* WebSocketHandshake::parseHandshakeResponse (src/websocket_client.hpp:941-989):
\* its result code
parseHandshakeResponse(response, accept_key) ==
    LET lines == split(response, "\n")
        has == parseLines(lines, 2, accept_key, NoFlags)
    IN  IF lines = <<>> THEN "HANDSHAKE_ERROR"
        ELSE IF Find(trim(lines[1]), <<"H", "T", "T", "P", "/", "1", ".", "1", " ", "1", "0", "1">>) = npos THEN "HANDSHAKE_ERROR"
        ELSE IF has.returned THEN "HANDSHAKE_ERROR"
        ELSE IF ~has.has_upgrade THEN "HANDSHAKE_ERROR"
        ELSE IF ~has.has_connection THEN "HANDSHAKE_ERROR"
        ELSE IF ~has.has_accept THEN "HANDSHAKE_ERROR"
        ELSE "SUCCESS"

\* The accept value the client expects (buildRequest, part_001:495-499); the value
\* of RFC 6455 section 1.3 stands for base64(SHA1(key + GUID))
ExpectedAccept == <<"s", "3", "p", "P", "L", "M", "B", "i", "T", "x", "a", "Q", "9", "k", "Y", "G", "z", "z", "h", "Z", "R", "b", "K", "+", "x", "O", "o", "=">>

\* The accept value with the byte at position i changed: a letter into the same
\* letter of the other case, any other character into '#'
OtherByte(c) ==
    IF \E j \in DOMAIN UpperCase : UpperCase[j] = c THEN tolower(c)
    ELSE IF \E j \in DOMAIN LowerCase : LowerCase[j] = c
    THEN UpperCase[CHOOSE j \in DOMAIN LowerCase : LowerCase[j] = c]
    ELSE "#"
Changed(i) == [ExpectedAccept EXCEPT ![i] = OtherByte(ExpectedAccept[i])]

\* The lines a server answers with. A header is a name and a value; a header the
\* server leaves out has neither.
NoHeader == [name |-> <<>>, value |-> <<>>]
Header(name, value) == [name |-> name, value |-> value]

StatusLines ==
    {<<"H", "T", "T", "P", "/", "1", ".", "1", " ", "1", "0", "1", " ", "S", "w", "i", "t", "c", "h", "i", "n", "g", " ", "P", "r", "o", "t", "o", "c", "o", "l", "s">>,
     <<"H", "T", "T", "P", "/", "1", ".", "1", " ", "2", "0", "0", " ", "O", "K">>,
     <<"H", "T", "T", "P", "/", "1", ".", "0", " ", "1", "0", "1", " ", "S", "w", "i", "t", "c", "h", "i", "n", "g", " ", "P", "r", "o", "t", "o", "c", "o", "l", "s">>}

UpgradeHeaders ==
    {NoHeader,
     Header(<<"U", "p", "g", "r", "a", "d", "e">>, <<"w", "e", "b", "s", "o", "c", "k", "e", "t">>),
     Header(<<"u", "p", "g", "r", "a", "d", "e">>, <<"W", "e", "b", "S", "o", "c", "k", "e", "t">>),
     Header(<<"U", "p", "g", "r", "a", "d", "e">>, <<"w", "e", "b", "s", "o", "c", "k", "e", "t", ",", " ", "x">>),
     Header(<<"U", "p", "g", "r", "a", "d", "e">>, <<"h", "2", "c">>),
     Header(<<"X", "-", "U", "p", "g", "r", "a", "d", "e">>, <<"w", "e", "b", "s", "o", "c", "k", "e", "t">>)}

ConnectionHeaders ==
    {NoHeader,
     Header(<<"C", "o", "n", "n", "e", "c", "t", "i", "o", "n">>, <<"U", "p", "g", "r", "a", "d", "e">>),
     Header(<<"C", "O", "N", "N", "E", "C", "T", "I", "O", "N">>, <<"k", "e", "e", "p", "-", "a", "l", "i", "v", "e", ",", " ", "U", "p", "g", "r", "a", "d", "e">>),
     Header(<<"C", "o", "n", "n", "e", "c", "t", "i", "o", "n">>, <<"c", "l", "o", "s", "e">>)}

AcceptHeaders ==
    {NoHeader,
     Header(<<"S", "e", "c", "-", "W", "e", "b", "S", "o", "c", "k", "e", "t", "-", "A", "c", "c", "e", "p", "t">>, ExpectedAccept),
     Header(<<"s", "e", "c", "-", "w", "e", "b", "s", "o", "c", "k", "e", "t", "-", "a", "c", "c", "e", "p", "t">>, <<" ">> \o ExpectedAccept \o <<"\t">>),
     Header(<<"S", "e", "c", "-", "W", "e", "b", "S", "o", "c", "k", "e", "t", "-", "A", "c", "c", "e", "p", "t">>, SubSeq(ExpectedAccept, 1, Len(ExpectedAccept) - 1))}
    \cup {Header(<<"S", "e", "c", "-", "W", "e", "b", "S", "o", "c", "k", "e", "t", "-", "A", "c", "c", "e", "p", "t">>, Changed(i)) : i \in DOMAIN ExpectedAccept}

\* One line of the response, and the response: the status line, the headers the
\* server sends, and the empty line
HeaderLine(h) ==
    IF h = NoHeader THEN <<>> ELSE h.name \o <<":", " ">> \o h.value \o <<"\r", "\n">>
ResponseText(status, upgrade, connection, accept) ==
    status \o <<"\r", "\n">> \o HeaderLine(upgrade) \o HeaderLine(connection)
        \o HeaderLine(accept) \o <<"\r", "\n">>

HandshakeCall(status, upgrade, connection, accept) ==
    [fn |-> "handshake", stage |-> "lines", status |-> status, upgrade |-> upgrade,
     connection |-> connection, accept |-> accept, text |-> <<>>,
     validated |-> "none", parsed |-> "none"]

InitHandshake ==
    /\ InitIdle
    /\ calc \in {HandshakeCall(st, up, co, ac) : st \in StatusLines, up \in UpgradeHeaders,
                                                 co \in ConnectionHeaders, ac \in AcceptHeaders}

\* The server writes its response
ResponseWrite ==
    /\ calc.fn = "handshake"
    /\ calc.stage = "lines"
    /\ calc' = [calc EXCEPT !.stage = "text",
                            !.text = ResponseText(calc.status, calc.upgrade, calc.connection,
                                                  calc.accept)]
    /\ UNCHANGED clientVars

\* connect validates the headers, the response up to "\r\n\r\n" (part_001:599-602)
ValidateResponse ==
    /\ calc.fn = "handshake"
    /\ calc.stage = "text"
    /\ calc.validated = "none"
    /\ LET header_end == Find(calc.text, <<"\r", "\n", "\r", "\n">>)
           headers == Substr(calc.text, 0, header_end)
       IN  calc' = [calc EXCEPT !.validated =
                       WebSocketHandshake_validateResponse(headers, ExpectedAccept)]
    /\ UNCHANGED clientVars

\* performHandshake parses the response it has read (src/websocket_client.hpp:1194-1212)
ParseHandshakeResponse ==
    /\ calc.fn = "handshake"
    /\ calc.stage = "text"
    /\ calc.parsed = "none"
    /\ calc' = [calc EXCEPT !.parsed = parseHandshakeResponse(calc.text, ExpectedAccept)]
    /\ UNCHANGED clientVars

\* The handshake response alone: a response is written and each validator reads it
SpecHandshake ==
    InitHandshake /\ [][ResponseWrite \/ ValidateResponse \/ ParseHandshakeResponse]_vars

\* ------------------------------------------------------------------ Utils: base64 and SHA-1

\* The printable characters in the order of their codes, from 32 on (the double
\* quote, the backslash and the backtick, which no text here holds, by their names)
Ascii ==
    <<" ", "!", "quote", "#", "$", "%", "&", "'", "(", ")", "*", "+", ",", "-", ".", "/", "0", "1", "2", "3", "4", "5", "6", "7", "8", "9", ":", ";", "<", "=", ">", "?", "@", "A", "B", "C", "D", "E", "F", "G", "H", "I", "J", "K", "L", "M", "N", "O", "P", "Q", "R", "S", "T", "U", "V", "W", "X", "Y", "Z", "[", "backslash", "]", "^", "_", "backtick", "a", "b", "c", "d", "e", "f", "g", "h", "i", "j", "k", "l", "m", "n", "o", "p", "q", "r", "s", "t", "u", "v", "w", "x", "y", "z", "{", "|", "}", "~">>
Ord(c) == 31 + (CHOOSE i \in DOMAIN Ascii : Ascii[i] = c)
BytesOf(s) == [i \in DOMAIN s |-> Ord(s[i])]

RECURSIVE Pow2(_)
Pow2(n) == IF n = 0 THEN 1 ELSE 2 * Pow2(n - 1)

\* table of Utils::base64Encode (part_001:138)
Base64Chars == UpperCase \o LowerCase \o Digits \o <<"+", "/">>

\* The bits of base64Encode's int val that the code reads: it shifts val by at
\* most 6 and masks with 0x3F, so of the 32 bits that wrap the low 16 are kept
ValBits == 65536

\* while (valb >= 0) { out.push_back(table[(val >> valb) & 0x3F]); valb -= 6; }
RECURSIVE Base64Drain(_, _, _)
Base64Drain(val, valb, out) ==
    IF valb >= 0
    THEN Base64Drain(val, valb - 6, Append(out, Base64Chars[((val \div Pow2(valb)) % 64) + 1]))
    ELSE [valb |-> valb, out |-> out]

\* for (unsigned char c : in) { val = (val << 8) + c; valb += 8; ... }
RECURSIVE Base64Loop(_, _, _, _)
Base64Loop(in, val, valb, out) ==
    IF in = <<>> THEN [val |-> val, valb |-> valb, out |-> out]
    ELSE LET v == (val * 256 + Head(in)) % ValBits
             d == Base64Drain(v, valb + 8, out)
         IN  IF d.valb < 0 THEN Base64Loop(Tail(in), v, d.valb, d.out) ELSE d

\* while (out.size() % 4) out.push_back('=')
RECURSIVE Base64Pad(_)
Base64Pad(out) == IF Len(out) % 4 = 0 THEN out ELSE Base64Pad(Append(out, "="))

\* Utils::base64Encode (part_001:137-152), from bytes to characters
base64Encode(in) ==
    LET s == Base64Loop(in, 0, -6, <<>>)
    IN  Base64Pad(IF s.valb > -6
                  THEN Append(s.out, Base64Chars[(((s.val * 256) \div Pow2(s.valb + 8)) % 64) + 1])
                  ELSE s.out)

\* SHA-1 (FIPS 180-4), what OpenSSL's SHA1 computes.  A 32-bit word is <<high 16
\* bits, low 16 bits>>.
RECURSIVE AndBits(_, _)
AndBits(a, b) ==
    IF a = 0 \/ b = 0 THEN 0
    ELSE 2 * AndBits(a \div 2, b \div 2) + ((a % 2) * (b % 2))
AndTable == [a \in 0..15 |-> [b \in 0..15 |-> AndBits(a, b)]]
And16(a, b) ==
    4096 * AndTable[a \div 4096][b \div 4096] + 256 * AndTable[(a \div 256) % 16][(b \div 256) % 16]
    + 16 * AndTable[(a \div 16) % 16][(b \div 16) % 16] + AndTable[a % 16][b % 16]
Xor16(a, b) == 256 * Xor(a \div 256, b \div 256) + Xor(a % 256, b % 256)
WordAnd(x, y) == <<And16(x[1], y[1]), And16(x[2], y[2])>>
WordXor(x, y) == <<Xor16(x[1], y[1]), Xor16(x[2], y[2])>>
WordNot(x) == <<65535 - x[1], 65535 - x[2]>>
WordAdd(x, y) == <<(x[1] + y[1] + ((x[2] + y[2]) \div 65536)) % 65536, (x[2] + y[2]) % 65536>>
\* rotate left by n bits, 0 < n < 16, and by 30
Rotl(x, n) ==
    <<((x[1] * Pow2(n)) % 65536) + (x[2] \div Pow2(16 - n)),
      ((x[2] * Pow2(n)) % 65536) + (x[1] \div Pow2(16 - n))>>
Rotl30(x) == Rotl(<<x[2], x[1]>>, 14)

\* the message with the bit 1, zeros and its length in bits in 64 bits appended
RECURSIVE Zeros(_)
Zeros(n) == IF n = 0 THEN <<>> ELSE <<0>> \o Zeros(n - 1)
ShaPad(msg) ==
    LET bits == 8 * Len(msg)
        fill == (119 - (Len(msg) % 64)) % 64
    IN  msg \o <<128>> \o Zeros(fill) \o Zeros(4)
            \o <<bits \div 16777216, (bits \div 65536) % 256, (bits \div 256) % 256, bits % 256>>

\* the message schedule of the block that starts after byte off: its 16 words,
\* extended to 80 words, 16 at a time
RECURSIVE ShaSchedule(_, _)
ShaSchedule(w, last) ==
    IF Len(w) >= last THEN w
    ELSE LET t == Len(w) + 1
         IN  ShaSchedule(Append(w, Rotl(WordXor(WordXor(w[t - 3], w[t - 8]),
                                                WordXor(w[t - 14], w[t - 16])), 1)), last)
ShaBlock(p, off) ==
    LET w16 == [t \in 1..16 |-> <<256 * p[off + 4 * t - 3] + p[off + 4 * t - 2],
                                  256 * p[off + 4 * t - 1] + p[off + 4 * t]>>]
    IN  ShaSchedule(ShaSchedule(ShaSchedule(ShaSchedule(w16, 32), 48), 64), 80)

ShaInit == <<<<26437, 8961>>, <<61389, 43913>>, <<39098, 56574>>, <<4146, 21622>>, <<50130, 57840>>>>
ShaK(t) == IF t <= 20 THEN <<23170, 31129>> ELSE IF t <= 40 THEN <<28377, 60321>> ELSE IF t <= 60 THEN <<36635, 48348>> ELSE <<51810, 49622>>
ShaF(t, b, c, d) ==
    IF t <= 20 THEN WordXor(WordAnd(b, c), WordAnd(WordNot(b), d))
    ELSE IF t <= 40 \/ t > 60 THEN WordXor(WordXor(b, c), d)
    ELSE WordXor(WordXor(WordAnd(b, c), WordAnd(b, d)), WordAnd(c, d))

\* the rounds t to last on the working variables v = <<a, b, c, d, e>>, which
\* are computed round by round
RECURSIVE ShaRounds(_, _, _, _)
ShaRounds(w, t, last, v) ==
    IF t > last \/ v = <<>> THEN v
    ELSE ShaRounds(w, t + 1, last,
                   <<WordAdd(WordAdd(WordAdd(Rotl(v[1], 5), ShaF(t, v[2], v[3], v[4])),
                                     WordAdd(v[5], ShaK(t))), w[t]),
                     v[1], Rotl30(v[2]), v[3], v[4]>>)

RECURSIVE ShaBlocks(_, _, _)
ShaBlocks(p, off, h) ==
    IF off >= Len(p) THEN h
    ELSE LET w == ShaBlock(p, off)
             v == ShaRounds(w, 61, 80, ShaRounds(w, 41, 60, ShaRounds(w, 21, 40,
                      ShaRounds(w, 1, 20, h))))
         IN  ShaBlocks(p, off + 64, [i \in 1..5 |-> WordAdd(h[i], v[i])])

RECURSIVE WordBytes(_)
WordBytes(h) ==
    IF h = <<>> THEN <<>>
    ELSE <<Head(h)[1] \div 256, Head(h)[1] % 256, Head(h)[2] \div 256, Head(h)[2] % 256>>
             \o WordBytes(Tail(h))

\* SHA1(data, size, sha) (part_001:497): the 20 bytes of the digest
SHA1(msg) == WordBytes(ShaBlocks(ShaPad(msg), 0, ShaInit))

\* Utils::sha1 (websocket_client.hpp:211-219): the digest as 40 hexadecimal digits
HexDigits == Digits \o <<"a", "b", "c", "d", "e", "f">>
RECURSIVE Hex(_)
Hex(bytes) ==
    IF bytes = <<>> THEN <<>>
    ELSE <<HexDigits[(Head(bytes) \div 16) + 1], HexDigits[(Head(bytes) % 16) + 1]>>
             \o Hex(Tail(bytes))
sha1(input) == Hex(SHA1(input))

\* the GUID of buildRequest (part_001:494)
GUID ==
    <<"2", "5", "8", "E", "A", "F", "A", "5", "-", "E", "9", "1", "4", "-", "4", "7", "D", "A", "-", "9", "5", "C", "A", "-", "C", "5", "A", "B", "0", "D", "C", "8", "5", "B", "1", "1">>

\* ------------------------------------------------------------------ handshake request

\* The 16 bytes of the key: the nonce of RFC 6455, keys of letters and digits as
\* Utils::generateRandomString makes them (websocket_client.hpp:177-189), and keys
\* of any bytes as Utils::randomBytes makes them (part_001:130-134)
KeyLength == 16
KeysOfAKind == 30
Alnum == UpperCase \o LowerCase \o Digits
SampleKey ==
    BytesOf(<<"t", "h", "e", " ", "s", "a", "m", "p", "l", "e", " ", "n", "o", "n", "c", "e">>)
AlnumKey(i) == [j \in 1..KeyLength |-> Ord(Alnum[((7 * i + 11 * j) % 62) + 1])]
BytesKey(i) == [j \in 1..KeyLength |-> (37 * i + 101 * j + 128) % 256]
AlnumKeys == {AlnumKey(i) : i \in 1..KeysOfAKind}
Keys == {SampleKey} \cup AlnumKeys \cup {BytesKey(i) : i \in 1..KeysOfAKind}

\* A call of a request builder: the random key, the header lines of the request
\* as <<name, value>>, and the accept value it hands to the validator
RequestCall(key) ==
    [fn |-> "request", stage |-> "start", key |-> key, request |-> <<>>, accept |-> <<>>]

InitRequest ==
    /\ InitIdle
    /\ calc \in {RequestCall(key) : key \in Keys}

\* the header lines both builders write (part_001:505-510, websocket_client.hpp:911-917)
RequestLines(key_b64) ==
    <<<<"Upgrade", "websocket">>, <<"Connection", "Upgrade">>,
      <<"Sec-WebSocket-Key", key_b64>>, <<"Sec-WebSocket-Version", "13">>>>

\* WebSocketHandshake::buildRequest (part_001:488-499): the accept value is
\* base64(SHA1(client_key_b64 + GUID))
BuildRequest ==
    /\ calc.fn = "request"
    /\ calc.stage = "start"
    /\ LET client_key_b64 == base64Encode(calc.key)
           accept_src == client_key_b64 \o GUID
       IN  calc' = [calc EXCEPT !.stage = "built",
                                !.request = RequestLines(client_key_b64),
                                !.accept = base64Encode(SHA1(BytesOf(accept_src)))]
    /\ UNCHANGED clientVars

\* WebSocketHandshake::createHandshakeRequest (websocket_client.hpp:899-917): the
\* accept value is base64Encode(sha1(key + GUID)), over the key as generated and
\* over the digest in hexadecimal digits
CreateHandshakeRequest ==
    /\ calc.fn = "request"
    /\ calc.stage = "start"
    /\ calc.key \in AlnumKeys
    /\ calc' = [calc EXCEPT !.stage = "built",
                            !.request = RequestLines(base64Encode(calc.key)),
                            !.accept = base64Encode(BytesOf(sha1(calc.key \o BytesOf(GUID))))]
    /\ UNCHANGED clientVars

\* URL::parse alone, on every port text
SpecPort == InitPort /\ [][PortParse]_vars

\* URL::parse alone, on every URL with a query
SpecQuery == InitQuery /\ [][QueryParse]_vars

\* The request builders alone, on every key
SpecRequest == InitRequest /\ [][BuildRequest \/ CreateHandshakeRequest]_vars

\* ------------------------------------------------------------------ connect's read loop

\* The most resp may hold, char buf[2048], and the longest wait of one recvSome in
\* ms (part_001:596, 588, 592)
MaxResponseSize == 32768
BufSize == 2048
RecvSlice == 500

\* config_.getTimeout() in ms
Timeouts == {0, 1000}

\* What the peer sends after the request: total bytes, and where the first
\* "\r\n\r\n" ends in them (0: there is none).  A short response, alone and
\* followed by a frame; header blocks of just 32 KiB and just under it followed by
\* a frame; a header block over 32 KiB; bytes without a terminator, few and many.
Stream(total, term) == [total |-> total, term |-> term]
Streams ==
    {Stream(200, 200), Stream(210, 200), Stream(MaxResponseSize, MaxResponseSize),
     Stream(MaxResponseSize + 4, MaxResponseSize - 4), Stream(40000, 33000),
     Stream(100, 0), Stream(40000, 0)}

\* What one recv returns of the bytes that are left
ChunkSizes == {1024, BufSize}

\* How long a recvSome that returns bytes has waited, in ms
RecvWaits == {0, 300}

Min(a, b) == IF a < b THEN a ELSE b

\* resp.find("\r\n\r\n") != npos (part_001:589): the terminator is in the first
\* size bytes of the stream
Found(stream, size) == stream.term > 0 /\ size >= stream.term

\* resp.size() > 32 * 1024 (part_001:596)
TooLarge(size) == size > MaxResponseSize

\* connect at the read loop (part_001:585-588): the state is CONNECTING, the
\* transport is open, resp is empty, start is now
ReadCall(timeout, stream) ==
    [fn |-> "read", stage |-> "top", timeout |-> timeout, stream |-> stream, now |-> 0,
     left_ms |-> 0, size |-> 0, sock |-> TRUE, state |-> "CONNECTING", res |-> "none",
     headers |-> 0]

InitRead ==
    /\ InitIdle
    /\ calc \in {ReadCall(timeout, stream) : timeout \in Timeouts, stream \in Streams}

\* conn_.close(); state_.store(CLOSED); return code (part_001:591, 593, 596)
ReadFail(code) ==
    [calc EXCEPT !.stage = "done", !.sock = FALSE, !.state = "CLOSED", !.res = code]

\* The loop's condition and its deadline (part_001:589-591); with the terminator
\* in resp, headers = resp.substr(0, header_end) goes to validateResponse (598-601)
ReadTop ==
    /\ calc.fn = "read"
    /\ calc.stage = "top"
    /\ IF Found(calc.stream, calc.size)
       THEN calc' = [calc EXCEPT !.stage = "done", !.res = "VALIDATE",
                                 !.headers = calc.stream.term - 4]
       ELSE IF calc.timeout - calc.now <= 0
       THEN calc' = ReadFail("TIMEOUT")
       ELSE calc' = [calc EXCEPT !.stage = "recv", !.left_ms = calc.timeout - calc.now]
    /\ UNCHANGED clientVars

\* recvSome returns n > 0 bytes; resp.append; the size test (part_001:592-596)
ReadRecvSome(chunk, d) ==
    /\ calc.fn = "read"
    /\ calc.stage = "recv"
    /\ calc.size < calc.stream.total
    /\ d <= Min(calc.left_ms, RecvSlice)
    /\ LET n == Min(chunk, calc.stream.total - calc.size)
       IN  IF TooLarge(calc.size + n)
           THEN calc' = [ReadFail("HANDSHAKE_ERROR") EXCEPT !.size = @ + n, !.now = @ + d]
           ELSE calc' = [calc EXCEPT !.stage = "top", !.size = @ + n, !.now = @ + d]
    /\ UNCHANGED clientVars

\* recvSome returns 0 after min(left_ms, 500) ms: continue (part_001:592, 594)
ReadRecvNone ==
    /\ calc.fn = "read"
    /\ calc.stage = "recv"
    /\ calc' = [calc EXCEPT !.stage = "top", !.now = @ + Min(calc.left_ms, RecvSlice)]
    /\ UNCHANGED clientVars

\* recvSome returns n < 0: the peer has closed the connection (part_001:593)
ReadRecvFail ==
    /\ calc.fn = "read"
    /\ calc.stage = "recv"
    /\ calc' = ReadFail("CONNECTION_ERROR")
    /\ UNCHANGED clientVars

\* connect's read loop alone, on every stream, cut into chunks in every way
SpecRead ==
    InitRead /\ [][ReadTop \/ (\E chunk \in ChunkSizes, d \in RecvWaits : ReadRecvSome(chunk, d))
                     \/ ReadRecvNone \/ ReadRecvFail]_vars

\* ------------------------------------------------------------------ specification

UserSendOps == {"TEXT", "BINARY", "PING"}

\* The user calls of send, sendBinary and ping
NextSendCall ==
    \E t \in Users, op \in UserSendOps, pl \in Payloads : SendCall(t, op, pl)

\* The user calls of ping, with payloads of every length
NextPing ==
    \E t \in Users, pl \in PingPayloads : SendCall(t, "PING", pl)

\* The steps of sendFrame, of connect, of the worker and of the peer
NextRun ==
    \/ \E t \in Threads : SendFrameLock(t)
    \/ \E t \in Threads : SendFrameWrite(t)
    \/ \E t \in Users, u \in URLs : ConnectCall(t, u)
    \/ \E t \in Users : ConnectStore(t)
    \/ \E t \in Users : ConnectTransport(t)
    \/ \E t \in Users : ConnectSend(t)
    \/ \E t \in Users : ConnectRead(t)
    \/ \E t \in Users : ConnectOpen(t)
    \/ \E t \in Users : ConnectOnOpen(t)
    \/ \E t \in Users : ConnectSpawn(t)
    \/ LoopTop
    \/ LoopRecv
    \/ HandleFrame
    \/ AfterPong
    \/ AfterCloseEcho
    \/ \E r \in Responses : PeerRespond(r)
    \/ \E f \in PeerFrameSet : PeerSend(f)
    \/ PeerDrop

\* The steps of disconnect
NextDisconnect ==
    \/ \E t \in Users : DisconnectCall(t)
    \/ \E t \in Users : DisconnectSendClose(t)
    \/ \E t \in Users : DisconnectStop(t)
    \/ \E t \in Users : DisconnectJoin(t)
    \/ \E t \in Users : DisconnectClose(t)

Next == NextSendCall \/ NextRun \/ NextDisconnect

\* One owner thread and one sending thread
Spec == Init /\ [][Next]_vars

\* Two threads that call disconnect
SpecDisc == InitDisc /\ [][NextRun \/ NextDisconnect]_vars

\* Two sending threads on a connection that the user does not close
SpecSend == InitSend /\ [][NextSendCall \/ NextRun]_vars

\* Two threads that call connect
SpecConn == InitConn /\ [][NextRun]_vars

\* Fair scheduling: a thread that can take its next step takes it.  The user's
\* calls and the peer's steps are under no obligation; a recvSome returns within
\* its slice (LoopRecv).
FairThreads ==
    /\ \A t \in Threads : WF_vars(SendFrameLock(t)) /\ WF_vars(SendFrameWrite(t))
    /\ \A t \in Users :
          /\ WF_vars(DisconnectSendClose(t))
          /\ WF_vars(DisconnectStop(t))
          /\ WF_vars(DisconnectJoin(t))
          /\ WF_vars(DisconnectClose(t))
    /\ WF_vars(LoopTop)
    /\ WF_vars(LoopRecv)
    /\ WF_vars(HandleFrame)
    /\ WF_vars(AfterPong)
    /\ WF_vars(AfterCloseEcho)

\* One thread that connects and disconnects, under fair scheduling
SpecStop == InitStop /\ [][NextRun \/ NextDisconnect]_vars /\ FairThreads

\* One thread that connects and calls ping
SpecPing == InitPing /\ [][NextPing \/ NextRun]_vars

\* One connection and the frames of the peer
SpecBurst == InitBurst /\ [][NextRun]_vars

\* The steps of a message callback that calls disconnect
NextCallback ==
    \/ CallbackDisconnect
    \/ CallbackStop
    \/ \E catches \in BOOLEAN : CallbackJoin(catches)
    \/ CallbackReturn

\* One connection whose message callbacks may call disconnect
SpecCallback == InitBurst /\ [][NextRun \/ NextCallback]_vars

\* The frame codec on whole frames
SpecCodec == InitCodec /\ [][Serialize \/ Parse]_vars

\* The frame codec on a buffer that fills piece by piece
SpecFeed == InitFeed /\ [][Serialize \/ (\E k \in Splits(calc.bytes) : FeedFirst(k))
                                     \/ (\E trail \in Trails : FeedRest(trail))]_vars

\* The URL parser
SpecURL == InitURL /\ [][URLWrite \/ URLParse]_vars

\* ------------------------------------------------------------------ claims

\* positions of the callback log with event ev
Events(ev) == {i \in DOMAIN cb : cb[i].ev = ev}

\* a whole frame of type op written by thread t is on the wire
FrameWritten(t, op) ==
    \E i \in DOMAIN wire :
        /\ i < Len(wire)
        /\ wire[i].by = t /\ wire[i].op = op /\ wire[i].part = 1
        /\ wire[i + 1].fid = wire[i].fid /\ wire[i + 1].part = 2

\* this step is thread t's connect returning a failure
ConnectFails(t) ==
    /\ pc'[t] = "idle"
    /\ \/ pc[t] \in {"c_conn", "c_send", "c_read"}
       \/ pc[t] = "idle" /\ left'[t] # left[t] /\ rc'[t] = "URL_ERROR"

\* C1: when connect returns a failure (bad URL, transport, TLS, handshake send or
\* read, timeout, oversized response, validation), the state is CLOSED, the call
\* has not invoked on-open, no worker is running or joinable and the transport is
\* closed, so that the next connect passes the state check.
C1_FailedConnect ==
    [][\A t \in Users :
          ConnectFails(t) =>
              /\ rc'[t] \in {"URL_ERROR", "CONNECTION_ERROR", "SSL_ERROR", "HANDSHAKE_ERROR",
                             "TIMEOUT"}
              /\ state' = "CLOSED"
              /\ ~opened'[t]
              /\ worker' = "none"
              /\ ~sock'
              /\ ~ConnectReject(state')]_vars

\* C1 witness: a connect has failed validating the handshake response, after the
\* socket was open and the request was sent
C1_Witness ==
    /\ pc["u1"] = "idle"
    /\ rc["u1"] = "HANDSHAKE_ERROR"
    /\ state = "CLOSED"
    /\ Events("error") # {}

C3_OnCloseOnce ==
    /\ Cardinality(Events("open")) <= 1
    /\ \A i \in Events("open") : Cardinality({j \in Events("close") : j > i}) <= 1

\* C4: when the worker has dispatched a CLOSE frame of the peer while the state
\* is OPEN, the state becomes CLOSING and the stop flag is set.
C4_PeerClose ==
    [][(pc[Worker] = "w_closed" /\ pc'[Worker] # "w_closed" /\ state = "OPEN") =>
           (state' = "CLOSING" /\ stop')]_vars

\* C5: when the worker's receive returns n < 0, on-error is invoked (once, with
\* the transport failure) as the worker leaves its loop.
C5_RecvError ==
    [][(pc[Worker] = "w_recv" /\ worker' = "exited") =>
           (Len(cb') = Len(cb) + 1 /\ cb'[Len(cb')].ev = "error")]_vars

\* C6: send-text, send-binary and ping called while the state is not OPEN return
\* not-open (INVALID_STATE "not open") at once, write nothing to the transport and
\* leave the state and the receive side as they are.
C6_SendNotOpen ==
    [][\A t \in Users, op \in {"TEXT", "BINARY", "PING"}, pl \in {"a"} :
          (SendCall(t, op, pl) /\ state # "OPEN") =>
              /\ rc'[t] = "INVALID_STATE"
              /\ pc'[t] = "idle"
              /\ mtx' = mtx
              /\ UNCHANGED <<state, stop, worker, recv_buf, cb, connVars>>]_vars

\* C6 witness: the sending thread got not-open while the owner was connecting
C6_Witness ==
    /\ pc["u2"] = "idle"
    /\ rc["u2"] = "INVALID_STATE"
    /\ state = "CONNECTING"

\* C7: what is written to the socket after the upgrade request is a sequence of
\* whole frames: each frame's two chunks are adjacent (the last frame may be cut
\* short by a failing write), no chunk of another frame between them.
C7_NoInterleaving ==
    \A j \in DOMAIN wire :
        /\ (wire[j].op = "HANDSHAKE") => j = 1
        /\ (wire[j].op # "HANDSHAKE" /\ wire[j].part = 1 /\ j < Len(wire)) =>
               (wire[j + 1].fid = wire[j].fid /\ wire[j + 1].part = 2)
        /\ (wire[j].part = 2) =>
               (j > 1 /\ wire[j - 1].fid = wire[j].fid /\ wire[j - 1].part = 1)

\* C7 witness: frames of a user thread and of the worker are on the wire, and a
\* thread waits for the send mutex while another writes
C7_Witness ==
    /\ FrameWritten("u2", "TEXT")
    /\ \E op \in {"PONG", "PING", "CLOSE"} : FrameWritten(Worker, op)
    /\ pc["u1"] = "sf_lock"
    /\ mtx = Worker

\* C8: in a connect cycle every on-text, on-binary and on-close comes after the
\* on-open, and no on-text or on-binary comes after the on-close.
C8_CallbackOrder ==
    \A i \in DOMAIN cb :
        /\ cb[i].ev \in {"text", "binary", "close"} => \E j \in Events("open") : j < i
        /\ cb[i].ev \in {"text", "binary"} => \A j \in Events("close") : i < j

\* C8 witness: on-open, then a message, then on-close
C8_Witness ==
    \E i, j, k \in DOMAIN cb :
        /\ i < j /\ j < k
        /\ cb[i].ev = "open" /\ cb[j].ev \in {"text", "binary"} /\ cb[k].ev = "close"

\* C9: the state never goes from OPEN directly to CLOSED: a local disconnect and
\* a peer close pass through CLOSING.
C9_ThroughClosing ==
    [][state = "OPEN" => state' \in {"OPEN", "CLOSING"}]_vars

IsData(f) == f.op \in {"TEXT", "BINARY"}
\* an invocation of on_text_ or on_binary_
IsDelivery(e) == e.ev \in {"text", "binary"}
\* the data frames that have arrived at the socket and are not yet dispatched,
\* oldest first
Pending == SelectSeq(recv_buf \o inflight, IsData)
\* the messages delivered so far
Delivered == SelectSeq(cb, IsDelivery)

\* C11: on a connection, the data frames that have arrived and are not yet
\* delivered change only by a new frame arriving behind them or by the oldest of
\* them being delivered to on-text / on-binary: messages are delivered in the
\* order of arrival and no data frame is skipped.
C11_WireOrder ==
    [][(sock /\ sock') =>
          \/ Pending' = Pending /\ Delivered' = Delivered
          \/ /\ Len(Pending') = Len(Pending) + 1
             /\ SubSeq(Pending', 1, Len(Pending)) = Pending
             /\ Delivered' = Delivered
          \/ /\ Pending # <<>>
             /\ Pending' = Tail(Pending)
             /\ Delivered' = Append(Delivered,
                                    [ev |-> IF Head(Pending).op = "TEXT" THEN "text" ELSE "binary",
                                     th |-> Worker])]_vars

\* C12: every user callback (on-open, on-text, on-binary, on-close, on-error) is
\* invoked on the worker thread, never on a thread that calls connect, send or
\* disconnect.
C12_OnWorkerThread ==
    \A i \in DOMAIN cb : cb[i].th = Worker

\* this step is thread t's send, sendBinary or ping returning SUCCESS
SendSucceeds(t) ==
    /\ pc[t] = "sf_write"
    /\ sf[t].ret = "idle"
    /\ pc'[t] = "idle"
    /\ rc'[t] = "SUCCESS"

\* C13: when a send call of a thread returns SUCCESS, the end of its frame is the
\* newest thing on the wire, right behind the frame's beginning, and all that was
\* written before, the frames of the thread's earlier calls among it, is still in
\* front of it in the same order: a sender's frames are on the wire in call order.
C13_CallOrder ==
    [][\A t \in Users :
          SendSucceeds(t) =>
              /\ Len(wire') = Len(wire) + 1
              /\ SubSeq(wire', 1, Len(wire)) = wire
              /\ wire'[Len(wire')].by = t
              /\ wire'[Len(wire')].op = sf[t].op
              /\ wire'[Len(wire')].part = 2
              /\ wire[Len(wire)].by = t
              /\ wire[Len(wire)].fid = wire'[Len(wire')].fid
              /\ wire[Len(wire)].part = 1]_vars

\* C13 witness: two calls of one thread have succeeded, the TEXT frame of the
\* first is on the wire in front of the BINARY frame of the second
C13_Witness ==
    /\ pc["u2"] = "idle"
    /\ rc["u2"] = "SUCCESS"
    /\ left["u2"] = 0
    /\ \E i, j \in DOMAIN wire :
          /\ i < j
          /\ wire[i].by = "u2" /\ wire[i].op = "TEXT" /\ wire[i].part = 2
          /\ wire[j].by = "u2" /\ wire[j].op = "BINARY" /\ wire[j].part = 2

\* C14: every chunk of a frame that a thread writes has the final bit and the
\* mask bit set and the type and the payload of the sendFrame call; a send call
\* that goes on to write passes its own type and payload, and one that returns
\* SUCCESS has written the frame's last chunk: one unfragmented frame per call.
C14_MaskedFinal ==
    [][/\ \A t \in Threads :
             (pc[t] \in {"sf_lock", "sf_write"} /\ pc'[t] # pc[t]) =>
                 \/ wire' = wire /\ (t \in Users => rc'[t] # "SUCCESS")
                 \/ /\ Len(wire') = Len(wire) + 1
                    /\ SubSeq(wire', 1, Len(wire)) = wire
                    /\ wire'[Len(wire')].fin
                    /\ wire'[Len(wire')].masked
                    /\ wire'[Len(wire')].op = sf[t].op
                    /\ wire'[Len(wire')].pl = sf[t].pl
                    /\ wire'[Len(wire')].by = t
                    /\ wire'[Len(wire')].part = (IF pc[t] = "sf_lock" THEN 1 ELSE 2)
       /\ \A t \in Users, op \in {"TEXT", "BINARY", "PING"}, pl \in {"a"} :
             (SendCall(t, op, pl) /\ state = "OPEN") =>
                 (pc'[t] = "sf_lock" /\ sf'[t].op = op /\ sf'[t].pl = pl /\ wire' = wire)]_vars

\* C14 witness: a sendBinary call has returned SUCCESS and its frame is on the wire
C14_Witness ==
    /\ pc["u2"] = "idle"
    /\ rc["u2"] = "SUCCESS"
    /\ \E i \in DOMAIN wire :
          /\ i < Len(wire)
          /\ wire[i].by = "u2" /\ wire[i].op = "BINARY" /\ wire[i].pl = "a" /\ wire[i].part = 1
          /\ wire[i + 1].fid = wire[i].fid /\ wire[i + 1].part = 2
          /\ wire[i + 1].masked /\ wire[i + 1].fin

\* C15: decoding serialize(f) succeeds, yields the final flag, the opcode, the
\* masked flag, the mask key and the payload of f, and reports consumed equal to
\* the length of serialize(f).
C15_RoundTrip ==
    (calc.fn = "codec" /\ calc.stage = "parsed") =>
        /\ calc.res.code = "SUCCESS"
        /\ calc.res.frame.fin = calc.frame.fin
        /\ calc.res.frame.opcode = calc.frame.opcode
        /\ calc.res.frame.masked = calc.frame.masked
        /\ calc.res.frame.mask_key = calc.frame.mask_key
        /\ calc.res.frame.payload = calc.frame.payload
        /\ calc.res.consumed = Len(calc.bytes)

\* C15 witness: a masked, non-final PONG frame with a 16-bit length of 126 has
\* been encoded and decoded
C15_Witness ==
    /\ calc.fn = "codec"
    /\ calc.stage = "parsed"
    /\ calc.frame.masked
    /\ ~calc.frame.fin
    /\ calc.frame.opcode = 10
    /\ Len(calc.frame.payload) = 126
    /\ calc.res.consumed = 2 + 2 + 4 + 126

\* C16: parse on the first k bytes of an encoded frame, k less than its length,
\* fails with consumed = 0 and the buffer stays as it is; parse on the whole
\* frame followed by other bytes returns the frame with consumed = the length of
\* the frame, and the bytes that follow stay in the buffer.
C16_Incremental ==
    /\ (calc.fn = "codec" /\ calc.stage = "fed1") =>
           /\ calc.k < Len(calc.bytes)
           /\ calc.res.code = "FRAME_ERROR"
           /\ calc.res.consumed = 0
           /\ calc.buf = SubSeq(calc.bytes, 1, calc.k)
    /\ (calc.fn = "codec" /\ calc.stage = "fed2") =>
           /\ calc.res.code = "SUCCESS"
           /\ calc.res.frame = calc.frame
           /\ calc.res.consumed = Len(calc.bytes)
           /\ calc.buf = calc.trail

\* C16 witness: a frame with a 64-bit length was split inside its length field,
\* then completed, with a byte of the next frame behind it
C16_Witness ==
    /\ calc.fn = "codec"
    /\ calc.stage = "fed2"
    /\ Len(calc.frame.payload) = MaxPayload
    /\ calc.frame.masked
    /\ calc.k = 5
    /\ calc.trail = <<129>>
    /\ calc.res.code = "SUCCESS"

\* a whole PONG frame of the worker with the payload of frame f is on the wire
PongWritten(f) ==
    \E i \in DOMAIN wire :
        /\ i < Len(wire)
        /\ wire[i].by = Worker /\ wire[i].op = "PONG" /\ wire[i].pl = f.pl /\ wire[i].part = 1
        /\ wire[i + 1].fid = wire[i].fid /\ wire[i + 1].part = 2

\* the worker is handling a PING frame: dispatching it, sending the PONG, erasing it
HandlingPing ==
    /\ recv_buf # <<>>
    /\ Head(recv_buf).op = "PING"
    /\ \/ pc[Worker] \in {"w_parse", "w_erase"}
       \/ pc[Worker] \in {"sf_lock", "sf_write"} /\ sf[Worker].op = "PONG"

C20_URLRoundTrip ==
    (calc.fn = "url" /\ calc.stage = "parsed" /\ calc.scheme \in {<<"w", "s">>, <<"w", "s", "s">>}) =>
        /\ calc.res.code = "SUCCESS"
        /\ calc.res.scheme = calc.scheme
        /\ calc.res.host = calc.host
        /\ calc.res.port = (IF calc.port # 0 THEN calc.port
                            ELSE IF calc.scheme = <<"w", "s">> THEN 80 ELSE 443)
        /\ calc.res.path = (IF calc.path # <<>> THEN calc.path ELSE <<"/">>)

\* C20 witness: wss://example.com has been parsed, with neither port nor path
C20_Witness ==
    /\ calc.fn = "url"
    /\ calc.stage = "parsed"
    /\ calc.text = <<"w", "s", "s", ":", "/", "/", "e", "x", "a", "m", "p", "l", "e", ".", "c", "o", "m">>
    /\ calc.res.code = "SUCCESS"
    /\ calc.res.port = 443
    /\ calc.res.path = <<"/">>


\* The URLs whose scheme is neither ws nor wss
OtherScheme == {u \in URLs : Parsed[u].scheme \notin {<<"w", "s">>, <<"w", "s", "s">>}}

SwitchesProtocols ==
    /\ Find(calc.status, <<"H", "T", "T", "P", "/", "1", ".", "1", " ", "1", "0", "1">>) # npos
    /\ toLower(calc.upgrade.name) = <<"u", "p", "g", "r", "a", "d", "e">>
    /\ Find(toLower(calc.upgrade.value), <<"w", "e", "b", "s", "o", "c", "k", "e", "t">>) # npos
    /\ toLower(calc.connection.name) = <<"c", "o", "n", "n", "e", "c", "t", "i", "o", "n">>
    /\ Find(toLower(calc.connection.value), <<"u", "p", "g", "r", "a", "d", "e">>) # npos
    /\ toLower(calc.accept.name) = <<"s", "e", "c", "-", "w", "e", "b", "s", "o", "c", "k", "e", "t", "-", "a", "c", "c", "e", "p", "t">>
    /\ trim(calc.accept.value) = ExpectedAccept

\* C19: each of the two handshake validators returns SUCCESS exactly when the status
\* line contains HTTP/1.1 101, the Upgrade value contains websocket, the Connection
\* value contains upgrade and the trimmed Sec-WebSocket-Accept value equals the
\* expected accept; so a response whose accept value differs in one byte is refused.
C19_Validators ==
    calc.fn = "handshake" =>
        /\ calc.validated # "none" => (calc.validated = "SUCCESS" <=> SwitchesProtocols)
        /\ calc.parsed # "none" => (calc.parsed = "SUCCESS" <=> SwitchesProtocols)


\* the positions of connect behind its state check (part_001:572-611)
Connecting(t) ==
    pc[t] \in {"c_store", "c_conn", "c_send", "c_read", "c_open", "c_onopen", "c_spawn"}

\* C21: of two connect calls racing on a CLOSED client only one gets past the state
\* check and goes on to CONNECTING and the transport; the other is rejected.
C21_OneConnects == Cardinality({t \in Users : Connecting(t)}) <= 1


\* C22: a text or binary frame with final = false is not delivered by itself: the
\* worker's dispatch of such a frame invokes no callback.
C22_NoFragmentDelivered ==
    [][(HandleFrame /\ IsData(Head(recv_buf)) /\ ~Head(recv_buf).fin) => cb' = cb]_vars


\* the parse loop has run on the buffer at least once
Decoded == calc.fn = "decode" /\ (calc.stage = "receiving" \/ calc.dispatched > 0)
\* need-more: parse has failed, runLoop has left the parse loop with the bytes
\* kept in recv_buf and receives again
NeedMore == calc.stage = "receiving" /\ calc.res.code = "FRAME_ERROR" /\ calc.recv_buf # <<>>
\* the announced payload length exceeds the configured max frame size
Oversize == Less64(calc.max_frame_size, AnnouncedLength(calc.announced))
\* the 64-bit extended length has its most significant bit set
HighBit == calc.announced.len7 = 127 /\ calc.announced.ext[1] >= 128

\* C23: a received frame whose payload length exceeds the configured max frame
\* size is not delivered to on-text / on-binary, and the worker does not keep its
\* bytes in the receive buffer waiting for more of them.
C23_Oversize == (Decoded /\ Oversize) => (calc.delivered = 0 /\ ~NeedMore)

\* C24: decoding a frame whose 64-bit length has the most significant bit set
\* never succeeds and never asks for more bytes, whatever follows the header.
C24_HighBit == (Decoded /\ HighBit) => (calc.res.code # "SUCCESS" /\ ~NeedMore)


\* C25: when the worker dispatches a frame whose opcode is none of 0, 1, 2, 8, 9,
\* 10, on-error is invoked (and the close is initiated).
C25_UnknownOpcode ==
    [][(HandleFrame /\ Head(recv_buf).op \notin FrameType) =>
           (Len(cb') = Len(cb) + 1 /\ cb'[Len(cb')].ev = "error")]_vars


\* a control frame's chunk on the wire
IsControl(c) == c.op \in {"CLOSE", "PING", "PONG"}

\* C26: every control frame (close, ping, pong) the client writes is final and
\* carries at most 125 bytes of payload.
C26_ControlFrames ==
    \A i \in DOMAIN wire : IsControl(wire[i]) => (wire[i].fin /\ Len(wire[i].pl) <= 125)


\* the time of the previous heartbeat PING, or of the start of the loop
PreviousBeat == IF calc.called = <<>> THEN 0 ELSE calc.called[Len(calc.called)]

C28_DisconnectReturns == \A t \in Users : (pc[t] = "d_join") ~> (pc[t] = "idle")


\* C29: a step that brings the state back to CLOSED from CONNECTING, OPEN or
\* CLOSING, a failing connect included, invokes on_close_, once.
C29_OnCloseAtClosed ==
    [][(state # "CLOSED" /\ state' = "CLOSED") =>
          \E t \in Users \cup {Worker} : cb' = Invoke("close", t)]_vars


\* the read loop has returned or has handed the headers to validateResponse
ReadDone == calc.fn = "read" /\ calc.stage = "done"

\* C30: the read loop ends with TIMEOUT only when the deadline has elapsed and with
\* HANDSHAKE_ERROR only when more than 32 KiB have arrived, in both cases without
\* the terminator, with the transport closed and the state CLOSED; a response
\* whose terminator has arrived goes to validation.
C30_ReadLoop ==
    ReadDone =>
        /\ calc.res = "TIMEOUT" =>
              (calc.now >= calc.timeout /\ ~Found(calc.stream, calc.size))
        /\ calc.res = "HANDSHAKE_ERROR" =>
              (calc.size > MaxResponseSize /\ ~Found(calc.stream, calc.size))
        /\ calc.res \in {"TIMEOUT", "HANDSHAKE_ERROR"} =>
              (~calc.sock /\ calc.state = "CLOSED")
        /\ Found(calc.stream, calc.size) => calc.res = "VALIDATE"

\* the value of the request's Sec-WebSocket-Key line
SentKey == (CHOOSE i \in DOMAIN calc.request : calc.request[i][1] = "Sec-WebSocket-Key")

\* C31: the request carries base64 of the 16 key bytes, and the accept value handed
\* to the validator is base64 of the 20 bytes of SHA-1 over that text and the GUID.
C31_AcceptFromKey ==
    (calc.fn = "request" /\ calc.stage = "built") =>
        LET K64 == calc.request[SentKey][2]
        IN  /\ K64 = base64Encode(calc.key)
            /\ calc.accept = base64Encode(SHA1(BytesOf(K64 \o GUID)))

\* a port text without the zeros in front of it
RECURSIVE Significant(_)
Significant(p) == IF p # <<>> /\ Head(p) = "0" THEN Significant(Tail(p)) ELSE p

\* the port text is all decimal digits and its value is in 1..65535
ValidPort(p) ==
    /\ p # <<>>
    /\ \A i \in DOMAIN p : IsDigit(p[i])
    /\ Len(Significant(p)) \in 1..5
    /\ atoi(Significant(p), 64) <= 65535

\* C32: parse accepts a URL with an explicit port exactly if the port text is all
\* digits with a value in 1..65535; every other port text gives URL_ERROR.
C32_PortRange ==
    (calc.fn = "port" /\ calc.stage = "parsed") =>
        /\ ValidPort(calc.port) => (calc.res.code = "SUCCESS" /\ calc.res.port = atoi(calc.port, 64))
        /\ ~ValidPort(calc.port) => calc.res.code = "URL_ERROR"

\* C33: of a URL with a '?' after its path, parse gives the path up to the '?',
\* beginning with '/', and the query behind the '?'.
C33_PathAndQuery ==
    (calc.fn = "query" /\ calc.stage = "parsed") =>
        /\ calc.res.code = "SUCCESS"
        /\ calc.res.path = calc.path
        /\ calc.res.query = calc.query
        /\ Head(calc.res.path) = "/"


\* C34: on the wire of a connection nothing follows a CLOSE frame of the client:
\* every chunk behind a chunk of a CLOSE frame belongs to that same frame.
C34_NothingAfterClose ==
    \A i, j \in DOMAIN wire :
        (wire[i].op = "CLOSE" /\ i < j) => wire[j].fid = wire[i].fid

\* C35: once the worker has dispatched a CLOSE frame of the peer (it has echoed
\* it and set stop_; in SpecBurst nothing else sets stop_), it invokes neither
\* on_text_ nor on_binary_ for the frames behind it.
C35_NoDeliveryAfterClose ==
    [][stop => (cb' # Invoke("text", Worker) /\ cb' # Invoke("binary", Worker))]_vars


\* C36: the handshake reader takes none of the frames that follow the response:
\* when connect has found the terminator and goes on to OPEN, every frame the peer
\* has sent is still there for the worker to read (resp is a local of connect
\* that the worker never sees, part_001:585, 635).
C36_NoByteLost ==
    [][\A t \in Users : (pc[t] = "c_read" /\ pc'[t] = "c_open") => inflight' = inflight]_vars


\* thread t is inside a disconnect call
Disconnecting(t) ==
    \/ pc[t] \in {"d_send", "d_stop", "d_join", "d_close"}
    \/ pc[t] \in {"sf_lock", "sf_write"} /\ sf[t].ret = "d_stop"

\* C37: while the state is CLOSED and no thread is inside connect or disconnect,
\* worker_ is neither running nor joinable.
C37_NoWorkerWhenClosed ==
    (state = "CLOSED" /\ \A t \in Users : ~Connecting(t) /\ ~Disconnecting(t)) => worker = "none"

\* C38: a disconnect call made inside a message callback ends, without
\* terminating the process, with the state CLOSED.
C38_DisconnectInCallback ==
    [][(pc[Worker] = "wd_join" /\ (pc'[Worker] # "wd_join" \/ crashed')) =>
           (state' = "CLOSED" /\ ~crashed')]_vars


\* C39: a round of the parse loop in which parse succeeds reports a consumed
\* count of at least 2 and at most the size of the buffer, and leaves the buffer
\* shorter than it was.
C39_ParseLoopShortens ==
    [][(calc.fn = "decode" /\ calc.stage = "parsing" /\ calc'.dispatched = calc.dispatched + 1) =>
           /\ calc'.res.consumed >= 2
           /\ calc'.res.consumed <= Len(calc.recv_buf)
           /\ Len(calc'.recv_buf) < Len(calc.recv_buf)]_vars


\* ------------------------------------------------------------------ TaskRunner

\* The calls the model makes on one TaskRunner (websocket_client.hpp:993-1064).
\* clear() is left out: it calls std::queue::clear, which does not exist.
MaxTasks == 2
MaxStarts == 3
MaxStops == 3
WorkerIds == 1..MaxStarts

\* TaskRunner() : run_(false) {}: no worker, an empty queue. Workers are numbered
\* in the order start() creates them, tasks in the order push_task queues them.
InitTasks ==
    /\ InitIdle
    /\ calc = [fn |-> "tasks", run_ |-> FALSE, tasks_ |-> <<>>, worker_ |-> 0,
               at |-> [w \in WorkerIds |-> "none"], task |-> [w \in WorkerIds |-> 0],
               caller |-> [t \in Users |-> "out"],
               pushed |-> 0, accepted |-> {}, before |-> [t \in Users |-> {}],
               ran |-> <<>>, starts |-> 0, stops |-> 0,
               returned |-> [t \in Users |-> 0], terminated |-> FALSE]

\* start(): under mtx_, nothing when run_ is set; otherwise run_ = true and
\* worker_ = std::thread(...). Move-assigning to a std::thread that is still
\* joinable calls std::terminate.
TaskRunner_start(t) ==
    /\ calc.fn = "tasks"
    /\ ~calc.terminated
    /\ calc.caller[t] = "out"
    /\ calc.starts < MaxStarts
    /\ LET w == calc.starts + 1
       IN  calc' = IF calc.run_ THEN [calc EXCEPT !.starts = w]
                   ELSE IF calc.worker_ # 0
                        THEN [calc EXCEPT !.starts = w, !.run_ = TRUE, !.terminated = TRUE]
                        ELSE [calc EXCEPT !.starts = w, !.run_ = TRUE, !.worker_ = w,
                                          !.at[w] = "wait"]
    /\ UNCHANGED clientVars

\* stop(), the block under mtx_: return when run_ is clear, else run_ = false
TaskRunner_stop(t) ==
    /\ calc.fn = "tasks"
    /\ ~calc.terminated
    /\ calc.caller[t] = "out"
    /\ calc.stops < MaxStops
    /\ calc' = IF ~calc.run_
               THEN [calc EXCEPT !.stops = @ + 1, !.before[t] = calc.accepted,
                                 !.returned[t] = @ + 1]
               ELSE [calc EXCEPT !.stops = @ + 1, !.before[t] = calc.accepted,
                                 !.run_ = FALSE, !.caller[t] = "join"]
    /\ UNCHANGED clientVars

\* stop(), cv_.notify_all(); worker_.join(): returns when the worker has left run()
TaskRunner_join(t) ==
    /\ calc.fn = "tasks"
    /\ ~calc.terminated
    /\ calc.caller[t] = "join"
    /\ calc.worker_ # 0
    /\ calc.at[calc.worker_] = "done"
    /\ calc' = [calc EXCEPT !.worker_ = 0, !.caller[t] = "out", !.returned[t] = @ + 1]
    /\ UNCHANGED clientVars

\* push_task(task): tasks_.push under mtx_, then cv_.notify_one()
TaskRunner_push_task(t) ==
    /\ calc.fn = "tasks"
    /\ ~calc.terminated
    /\ calc.caller[t] = "out"
    /\ calc.pushed < MaxTasks
    /\ LET id == calc.pushed + 1
       IN  calc' = [calc EXCEPT !.pushed = id, !.tasks_ = Append(@, id),
                                !.accepted = IF calc.run_ THEN @ \cup {id} ELSE @]
    /\ UNCHANGED clientVars

\* run(), the block under mtx_: cv_.wait until !run_ || !tasks_.empty(); return
\* when !run_ && tasks_.empty(), else take the front of the queue
TaskRunner_run_take(w) ==
    /\ calc.fn = "tasks"
    /\ ~calc.terminated
    /\ calc.at[w] = "wait"
    /\ ~calc.run_ \/ calc.tasks_ # <<>>
    /\ calc' = IF ~calc.run_ /\ calc.tasks_ = <<>>
               THEN [calc EXCEPT !.at[w] = "done"]
               ELSE [calc EXCEPT !.at[w] = "task", !.task[w] = Head(calc.tasks_),
                                 !.tasks_ = Tail(@)]
    /\ UNCHANGED clientVars

\* run(): task(), outside the lock
TaskRunner_run_task(w) ==
    /\ calc.fn = "tasks"
    /\ ~calc.terminated
    /\ calc.at[w] = "task"
    /\ calc' = [calc EXCEPT !.at[w] = "wait", !.task[w] = 0, !.ran = Append(@, calc.task[w])]
    /\ UNCHANGED clientVars

NextTasks ==
    \/ \E t \in Users : TaskRunner_start(t)
    \/ \E t \in Users : TaskRunner_stop(t)
    \/ \E t \in Users : TaskRunner_join(t)
    \/ \E t \in Users : TaskRunner_push_task(t)
    \/ \E w \in WorkerIds : TaskRunner_run_take(w)
    \/ \E w \in WorkerIds : TaskRunner_run_task(w)

SpecTasks == InitTasks /\ [][NextTasks]_vars

\* a stop() call of thread t returns in this step
StopReturns(t) == calc'.returned[t] = calc.returned[t] + 1

\* C40: the tasks run are the tasks pushed, in push order and each once; at most
\* one task is running and at most one worker exists at a time; and when a stop()
\* call returns, every task a running TaskRunner took before the call has run and
\* no worker is left.
C40_TaskRunner ==
    [][calc.fn = "tasks" =>
           /\ \A i \in 1..Len(calc'.ran) : calc'.ran[i] = i
           /\ Cardinality({w \in WorkerIds : calc'.at[w] = "task"}) <= 1
           /\ Cardinality({w \in WorkerIds : calc'.at[w] \in {"wait", "task"}}) <= 1
           /\ \A t \in Users : StopReturns(t) =>
                  /\ \A id \in calc'.before[t] : \E i \in 1..Len(calc'.ran) : calc'.ran[i] = id
                  /\ \A w \in WorkerIds : calc'.at[w] \in {"none", "done"}]_vars

====
